---- MODULE Spec2Model ----
(***************************************************************************)
(* Model of the laps_normalized ETL of f1muse:                             *)
(*   src/src/etl/ingest-laps.py       (multi-season loader, "multi")       *)
(*   src/src/etl/ingest-laps-2025.py  (2025 loader, "y2025")               *)
(*                                                                         *)
(* Part 1 models the pure record pipeline (transform_lap_data and the      *)
(* detectors it calls) as operators over a provider frame.                 *)
(* Part 2 models main / load_race_data against a PostgreSQL server reached *)
(* through one psycopg2 connection per run.                                *)
(*                                                                         *)
(* Durations are integers in microseconds.  A pandas frame is a sequence   *)
(* of rows; a row's position in the sequence is its index label.           *)
(***************************************************************************)
EXTENDS Integers, Sequences, FiniteSets, TLC

(***************************************************************************)
(* Bounds of the model                                                     *)
(***************************************************************************)
MaxLaps == 3          \* rows of a provider frame built in SpecStint
MaxCleanLaps == 2     \* rows of a provider frame built in SpecClean
MaxGapLaps == 2       \* rows of a provider frame built in SpecGap
MaxCompoundLaps == 3  \* rows of a provider frame built in SpecCompound
MaxRankLaps == 4       \* rows of a provider frame built in SpecRank
MaxRoundArg == 2      \* greatest value of --round in SpecRounds
MaxRuns == 2          \* serialized runs of the pipeline
MaxRounds == 2        \* rounds of the season (SEASON_RACE_COUNTS[season])
MaxFaults == 1        \* faults injected into one behaviour
MaxVersionLen == 2    \* characters of a source version in SpecHash
MaxQualRows == 2      \* records of a qualifying session in SpecQual
MaxValues == 2        \* rows of the statement checked in SpecUpsert
PageSize == 2         \* rows per statement of execute_values (psycopg2: 100)

(***************************************************************************)
(* Program constants and the encoding of missing values                    *)
(***************************************************************************)
ThresholdMulti == 2000000    \* CLEAN_AIR_GAP_THRESHOLD = 2.0 s
Threshold2025 == 1500000     \* CLEAN_AIR_GAP_THRESHOLD = 1.5 s

NoTime == -1                 \* LapTime is NaT
NoDriver == 0                \* DriverNumber is NaN
NoGap == -1                  \* GapToLeader is NaN
NoPos == 0                   \* Position is NaN
NoneCompound == "None"       \* Python None
NanCompound == "nan"         \* float NaN in an object column

Threshold(variant) == IF variant = "multi" THEN ThresholdMulti ELSE Threshold2025

(***************************************************************************)
(* Generic helpers                                                         *)
(***************************************************************************)
Range(s) == {s[i] : i \in DOMAIN s}

RECURSIVE SumOver(_, _)
SumOver(S, f) ==
    IF S = {} THEN 0
    ELSE LET x == CHOOSE y \in S : TRUE IN f[x] + SumOver(S \ {x}, f)

\* Indices of `idx` ordered by ascending key; equal keys keep their relative
\* order when rev = FALSE and swap it when rev = TRUE (the sort kind that
\* pandas/numpy use by default is not stable).
OrderBy(idx, key, rev) ==
    LET n == Len(idx)
        before(a, b) ==
            \/ key[idx[a]] < key[idx[b]]
            \/ key[idx[a]] = key[idx[b]] /\ (IF rev THEN a > b ELSE a < b)
        rank(a) == 1 + Cardinality({b \in 1..n : before(b, a)})
    IN  SubSeq([p \in 1..n |-> idx[CHOOSE a \in 1..n : rank(a) = p]], 1, n)

\* DataFrame.sort_values(['LapNumber']): the drivers stay interleaved
SortLapOnly(df) ==
    LET n == Len(df)
        before(a, b) ==
            \/ df[a].LapNumber < df[b].LapNumber
            \/ df[a].LapNumber = df[b].LapNumber /\ a < b
        rank(a) == 1 + Cardinality({b \in 1..n : before(b, a)})
    IN  SubSeq([p \in 1..n |-> df[CHOOSE a \in 1..n : rank(a) = p]], 1, n)

\* DataFrame.sort_values(['DriverNumber', 'LapNumber']) (a stable lexsort)
SortDriverLap(df) ==
    LET n == Len(df)
        before(a, b) ==
            \/ df[a].DriverNumber < df[b].DriverNumber
            \/ /\ df[a].DriverNumber = df[b].DriverNumber
               /\ \/ df[a].LapNumber < df[b].LapNumber
                  \/ df[a].LapNumber = df[b].LapNumber /\ a < b
        rank(a) == 1 + Cardinality({b \in 1..n : before(b, a)})
    IN  SubSeq([p \in 1..n |-> df[CHOOSE a \in 1..n : rank(a) = p]], 1, n)

(***************************************************************************)
(* Part 1.  The record pipeline                                            *)
(***************************************************************************)

\* row['Compound'] != prev_compound (NaN differs from everything, itself too)
CompoundNe(a, b) == IF a = NanCompound \/ b = NanCompound THEN TRUE ELSE a # b

\* The per-driver loop state of both stint detectors before a driver's first lap
StintStart ==
    [current_stint |-> 1, stint_lap |-> 1,
     prev_compound |-> NoneCompound, prev_had_pit_in |-> FALSE]

\* ingest-laps.py: does this lap open a new stint?
NewStintMulti(st, row) ==
    LET compound_changed ==
            st.prev_compound # NoneCompound /\ CompoundNe(row.Compound, st.prev_compound)
        pit_stop_occurred == st.prev_had_pit_in \/ row.PitOutTime
    IN  st.prev_compound # NoneCompound /\ (compound_changed \/ pit_stop_occurred)

\* ingest-laps-2025.py: does this lap open a new stint?
NewStint2025(st, row) ==
    /\ st.prev_compound # NoneCompound
    /\ (CompoundNe(row.Compound, st.prev_compound) \/ row.PitInTime)

NewStint(variant, st, row) ==
    IF variant = "multi" THEN NewStintMulti(st, row) ELSE NewStint2025(st, row)

\* StintScan with the reset of stint_lap left out
RECURSIVE StintScanNoReset(_, _, _, _, _)
StintScanNoReset(variant, df, i, st, acc) ==
    IF i > Len(df) THEN acc
    ELSE
      LET row == df[i]
          s0 == IF i = 1 \/ df[i - 1].DriverNumber # row.DriverNumber
                THEN StintStart ELSE st
          boundary == NewStint(variant, s0, row)
          stint == IF boundary THEN s0.current_stint + 1 ELSE s0.current_stint
          lapix == s0.stint_lap
          ann == [stint_id |-> stint, stint_lap_index |-> lapix,
                  is_in_lap_detected |-> row.PitInTime,
                  is_out_lap_detected |-> row.PitOutTime,
                  is_pit_lap_detected |-> (row.PitInTime \/ row.PitOutTime)]
          s1 == [current_stint |-> stint, stint_lap |-> lapix + 1,
                 prev_compound |-> row.Compound,
                 prev_had_pit_in |-> row.PitInTime]
      IN  StintScanNoReset(variant, df, i + 1, s1, Append(acc, ann))

\* One pass of the inner loop "for idx, row in driver_laps.iterrows()" over the
\* sorted frame; the loop state is reset where the driver changes.
RECURSIVE StintScan(_, _, _, _, _)
StintScan(variant, df, i, st, acc) ==
    IF i > Len(df) THEN acc
    ELSE
      LET row == df[i]
          s0 == IF i = 1 \/ df[i - 1].DriverNumber # row.DriverNumber
                THEN StintStart ELSE st
          boundary == NewStint(variant, s0, row)
          stint == IF boundary THEN s0.current_stint + 1 ELSE s0.current_stint
          lapix == IF boundary THEN 1 ELSE s0.stint_lap
          ann == [stint_id |-> stint, stint_lap_index |-> lapix,
                  is_in_lap_detected |-> row.PitInTime,
                  is_out_lap_detected |-> row.PitOutTime,
                  is_pit_lap_detected |-> (row.PitInTime \/ row.PitOutTime)]
          s1 == [current_stint |-> stint, stint_lap |-> lapix + 1,
                 prev_compound |-> row.Compound,
                 prev_had_pit_in |-> row.PitInTime]
      IN  StintScan(variant, df, i + 1, s1, Append(acc, ann))

\* detect_stints_and_pit_laps of ingest-laps.py: the sorted frame and, per row,
\* the columns the function adds.
detect_stints_and_pit_laps(laps_df) ==
    LET df == SortDriverLap(laps_df)
    IN  [df |-> df, ann |-> StintScan("multi", df, 1, StintStart, <<>>)]

\* detect_stints of ingest-laps-2025.py (it adds only the two stint columns;
\* the pit flags of a record are read from the markers in transform_lap_data).
detect_stints(laps_df) ==
    LET df == SortDriverLap(laps_df)
    IN  [df |-> df, ann |-> StintScan("y2025", df, 1, StintStart, <<>>)]

(***************************************************************************)
(* Clean air.  Each operator returns the clean_air_flag column, a sequence *)
(* of booleans aligned with the rows of df.                                *)
(***************************************************************************)

\* the _lap_time_sec column itself, not accumulated
LapTimeSec(df) == SubSeq([i \in 1..Len(df) |-> df[i].LapTime], 1, Len(df))

\* groupby('DriverNumber')['_lap_time_sec'].cumsum() on the sorted frame:
\* NaN where the lap has no duration, else the sum of the driver's durations up
\* to and including this row.
CumsumMulti(df) ==
    SubSeq([i \in 1..Len(df) |->
        IF df[i].LapTime = NoTime THEN NoTime
        ELSE SumOver({j \in 1..i : /\ df[j].DriverNumber = df[i].DriverNumber
                                    /\ df[j].LapTime # NoTime},
                     [j \in 1..Len(df) |-> df[j].LapTime])], 1, Len(df))

\* _detect_clean_air_from_cumulative: flags start True, a ranked non-leader
\* closer than the threshold to the car ahead becomes False.
CleanFromCumulative(df, threshold, rev) ==
    LET cum == CumsumMulti(df)
        dirty(i) ==
            LET lap == {j \in 1..Len(df) : df[j].LapNumber = df[i].LapNumber}
                valid == {j \in lap : cum[j] # NoTime}
                valid_indices == SelectSeq([p \in 1..Len(df) |-> p], LAMBDA j : j \in valid)
                sorted_indices == OrderBy(valid_indices, cum, rev)
            IN  /\ Cardinality(valid) >= 2
                /\ \E p \in 2..Len(sorted_indices) :
                     /\ sorted_indices[p] = i
                     /\ cum[sorted_indices[p]] - cum[sorted_indices[p - 1]] < threshold
    IN  [i \in 1..Len(df) |-> ~dirty(i)]

\* _detect_clean_air_from_gap: flags start True; a row that is not at Position 1
\* and has a gap becomes False when the row at Position - 1 of the same lap has a
\* gap and the difference is below the threshold.
CleanFromGap(df, threshold, rev) ==
    LET dirty(i) ==
            LET row == df[i]
                ahead == {j \in 1..Len(df) : /\ df[j].LapNumber = row.LapNumber
                                             /\ row.Position # NoPos
                                             /\ df[j].Position = row.Position - 1}
                first == IF rev THEN CHOOSE j \in ahead : \A k \in ahead : k <= j
                         ELSE CHOOSE j \in ahead : \A k \in ahead : j <= k
            IN  /\ row.Position # 1
                /\ row.GapToLeader # NoGap
                /\ ahead # {}
                /\ df[first].GapToLeader # NoGap
                /\ row.GapToLeader - df[first].GapToLeader < threshold
    IN  [i \in 1..Len(df) |-> ~dirty(i)]

\* has_gap_to_leader of detect_clean_air (ingest-laps.py): more than half of all
\* rows of the frame carry a GapToLeader (a missing column is an all-NaN column)
HasGapToLeader(df) ==
    2 * Cardinality({i \in 1..Len(df) : df[i].GapToLeader # NoGap}) > Len(df)

\* detect_clean_air of ingest-laps.py
DetectCleanAirMulti(df, threshold, rev) ==
    IF HasGapToLeader(df) THEN CleanFromGap(df, threshold, rev)
    ELSE CleanFromCumulative(df, threshold, rev)

\* Running race time of ingest-laps-2025.py: a lap without duration adds nothing
Cumulative2025(df) ==
    SubSeq([i \in 1..Len(df) |->
        SumOver({j \in 1..Len(df) : /\ df[j].DriverNumber = df[i].DriverNumber
                                    /\ df[j].LapNumber <= df[i].LapNumber
                                    /\ df[j].LapTime # NoTime},
                [j \in 1..Len(df) |-> df[j].LapTime])], 1, Len(df))

\* The three exclusion checks of ingest-laps-2025.py, in their order
Excluded2025(row) ==
    \/ row.PitInTime \/ row.PitOutTime
    \/ row.TrackStatus \cap {4, 6, 7} # {}
    \/ ~row.IsAccurate

\* detect_clean_air of ingest-laps-2025.py: flags start False; a row with no
\* exclusion becomes True when it is first in the lap's cumulative-time order or
\* at least the threshold behind the row ranked before it.
DetectCleanAir2025(df, threshold, rev) ==
    LET cum == Cumulative2025(df)
        all == [p \in 1..Len(df) |-> p]
        clean(i) ==
            LET in_lap == SelectSeq(all, LAMBDA j : df[j].LapNumber = df[i].LapNumber)
                lap_data == OrderBy(in_lap, cum, rev)
                pos == CHOOSE p \in 1..Len(lap_data) : lap_data[p] = i
            IN  /\ ~Excluded2025(df[i])
                /\ \/ pos = 1
                   \/ pos > 1 /\ cum[i] - cum[lap_data[pos - 1]] >= threshold
    IN  [i \in 1..Len(df) |-> clean(i)]

(***************************************************************************)
(* Strings that are compared for equality are sequences of tokens: words   *)
(* and the separators " ", "_" and "'".  The empty string is <<>>.         *)
(***************************************************************************)
LowerTok(t) ==
    CASE t \in {"VER", "Ver"} -> "ver"
      [] t \in {"HAM", "Ham"} -> "ham"
      [] t \in {"SAI", "Sai"} -> "sai"
      [] t \in {"Max", "MAX"} -> "max"
      [] t \in {"Verstappen"} -> "verstappen"
      [] t \in {"Lewis"} -> "lewis"
      [] t \in {"Hamilton"} -> "hamilton"
      [] t \in {"Carlos"} -> "carlos"
      [] t \in {"Sainz"} -> "sainz"
      [] t \in {"Bahrain"} -> "bahrain"
      [] t \in {"Monaco"} -> "monaco"
      [] t \in {"Grand"} -> "grand"
      [] t \in {"Prix"} -> "prix"
      [] OTHER -> t

UpperTok(t) ==
    CASE t \in {"ver", "Ver"} -> "VER"
      [] t \in {"ham", "Ham"} -> "HAM"
      [] t \in {"sai", "Sai"} -> "SAI"
      [] OTHER -> t

Lower(s) == [i \in DOMAIN s |-> LowerTok(s[i])]
Upper(s) == [i \in DOMAIN s |-> UpperTok(s[i])]
\* str.replace(old, new) for a one-token old; new = "" removes the token
Replace(s, old, new) == [i \in DOMAIN s |-> IF s[i] = old THEN new ELSE s[i]]
Remove(s, old) == SelectSeq(s, LAMBDA t : t # old)

\* FASTF1_TO_F1DB_DRIVER_MAP.get(raw_id, raw_id)
Fastf1ToF1db(raw_id) ==
    CASE raw_id = <<"carlos", "_", "sainz">> -> <<"carlos", "_", "sainz", "_", "jr">>
      [] raw_id = <<"andrea", "_", "kimi", "_", "antonelli">> -> <<"kimi", "_", "antonelli">>
      [] OTHER -> raw_id

\* One entry of driver_map in transform_lap_data of ingest-laps.py.
\* info = session.get_driver(driver_num); info.known = FALSE when it raises.
ResolveDriverMulti(driver_num, info, identity_map) ==
    IF ~info.known THEN <<"driver", "_", ToString(driver_num)>>
    ELSE LET abbrev == Upper(info.Abbreviation)
             first_name == Lower(info.FirstName)
             last_name == Lower(info.LastName)
         IN  IF abbrev \in DOMAIN identity_map THEN identity_map[abbrev]
             ELSE IF first_name # <<>> /\ last_name # <<>>
                  THEN first_name \o <<"_">> \o last_name
                  ELSE Lower(abbrev)

\* One entry of driver_map in transform_lap_data of ingest-laps-2025.py
ResolveDriver2025(driver_num, info) ==
    IF ~info.known THEN <<"driver", "_", ToString(driver_num)>>
    ELSE LET first_name == Replace(Lower(info.FirstName), " ", "_")
             last_name == Replace(Lower(info.LastName), " ", "_")
         IN  IF first_name # <<>> /\ last_name # <<>>
             THEN Fastf1ToF1db(first_name \o <<"_">> \o last_name)
             ELSE Lower(info.Abbreviation)

ResolveDriver(variant, driver_num, info, identity_map) ==
    IF variant = "multi" THEN ResolveDriverMulti(driver_num, info, identity_map)
    ELSE ResolveDriver2025(driver_num, info)

\* track_id of load_race_data, from event['EventName']
TrackId(variant, event_name) ==
    IF variant = "multi" THEN Remove(Replace(Lower(event_name), " ", "_"), "'")
    ELSE Replace(Lower(event_name), " ", "_")

\* round(lap_time_seconds, 3): microseconds to the nearest millisecond (the
\* durations used here never lie exactly between two milliseconds)
RoundMs(t) == (t + 500) \div 1000

\* the filter with the DriverNumber test left out
HasCriticalDataTimeOnly(row) == row.LapTime # NoTime

\* The fail-closed filter at the head of transform_lap_data (both loaders)
HasCriticalData(row) == row.LapTime # NoTime /\ row.DriverNumber # NoDriver

\* a pit lap inferred from a slow lap as well as from the markers
IsPitLapByDuration(row) == row.PitInTime \/ row.PitOutTime \/ row.LapTime > 2500400
\* is_pit_lap of ingest-laps-2025.py:
\* pd.notna(row.get('PitInTime')) or pd.notna(row.get('PitOutTime'))
IsPitLap2025(row) == row.PitInTime \/ row.PitOutTime

\* transform_lap_data of both loaders.  session.drivers is what
\* session.get_driver answers; rev is the order the sorts give to equal keys.
transform_lap_data(variant, laps_df, session, season, round_number, track_id, identity_map, rev) ==
    LET initial_count == Len(laps_df)
        filtered == SelectSeq(laps_df, HasCriticalData)
        skipped_before == initial_count - Len(filtered)
        st == IF variant = "multi" THEN detect_stints_and_pit_laps(filtered)
              ELSE detect_stints(filtered)
        df == st.df
        clean == IF variant = "multi" THEN DetectCleanAirMulti(df, ThresholdMulti, rev)
                 ELSE DetectCleanAir2025(df, Threshold2025, rev)
        kept == SelectSeq([i \in 1..Len(df) |-> i], LAMBDA i : df[i].LapTime # NoTime)
        rec(i) ==
            LET row == df[i]
            IN  [season |-> season,
                 round |-> round_number,
                 track_id |-> track_id,
                 driver_id |-> ResolveDriver(variant, row.DriverNumber,
                                             session.drivers[row.DriverNumber], identity_map),
                 session_type |-> "R",
                 lap_number |-> row.LapNumber,
                 stint_id |-> st.ann[i].stint_id,
                 stint_lap_index |-> st.ann[i].stint_lap_index,
                 lap_time_seconds |-> RoundMs(row.LapTime),
                 is_valid_lap |-> row.IsAccurate,
                 is_pit_lap |-> IF variant = "multi" THEN st.ann[i].is_pit_lap_detected
                                ELSE IsPitLap2025(row),
                 is_out_lap |-> IF variant = "multi" THEN st.ann[i].is_out_lap_detected
                                ELSE row.PitOutTime,
                 is_in_lap |-> IF variant = "multi" THEN st.ann[i].is_in_lap_detected
                               ELSE row.PitInTime,
                 clean_air_flag |-> clean[i],
                 compound |-> row.Compound,
                 tyre_age_laps |-> row.TyreLife]
    IN  [records |-> [k \in 1..Len(kept) |-> rec(kept[k])],
         source |-> [k \in 1..Len(kept) |-> df[kept[k]]],
         skipped_before |-> skipped_before,
         skipped_count |-> Len(df) - Len(kept)]

(***************************************************************************)
(* State                                                                   *)
(***************************************************************************)
VARIABLES
    variant,          \* which loader runs: "multi" or "y2025"
    frame,            \* session.laps handed to transform_lap_data (Part 1)
    tpc,              \* "build" while the frame is drawn, "done" after the call
    tout,             \* what transform_lap_data returned
    db,               \* PostgreSQL: committed laps_normalized, transaction state
    conn,             \* psycopg2 connection of the running process
    mpc,              \* position of main
    run_no,           \* number of runs started so far
    todo,             \* rounds_to_process not yet handed to load_race_data
    metrics,          \* ETLMetrics of the run
    identity_map,     \* what load_driver_identity_map returned
    lpc,              \* position inside load_race_data
    call,             \* locals of the current load_race_data call
    last,             \* record of the load_race_data call that returned last
    succeeded,        \* rounds for which some call returned 'success'
    produced,         \* batches transform_lap_data has returned, per round
    faults,           \* database/provider faults injected so far
    etl_runs,         \* audit table etl_runs_laps_normalized, which the program
                      \* only appends to: the number of rows and the newest row
    args,             \* command line of the current run: season, round (0: none)
    exit_code,        \* exit code of the run that ended last
    seen,             \* what the current run has done so far (see NoSeen)
    qual,             \* the qualifying loader: its tables, connection and call
    rounds,           \* main of a lap loader enumerating its rounds (see NoRounds)
    par,              \* two load_race_data calls on two connections (see NoPar)
    killed,           \* the run an external kill ended, and what it left
    fp,               \* calls of compute_execution_hash: arguments and results
    upsert            \* one INSERT ... ON CONFLICT statement: the table it
                      \* meets, the rows it proposes, the table it leaves

otherVars == <<upsert, fp, rounds, par, killed, qual>>
transformVars == <<frame, tpc, tout, otherVars>>
loaderVars == <<db, conn, mpc, run_no, todo, metrics, identity_map, lpc, call,
                last, succeeded, produced, faults, etl_runs, args, exit_code,
                seen>>
vars == <<variant, frame, tpc, tout, db, conn, mpc, run_no, todo, metrics,
          identity_map, lpc, call, last, succeeded, produced, faults, etl_runs,
          args, exit_code, seen, upsert, fp, rounds, par, killed, qual>>

Variants == {"multi", "y2025"}

(***************************************************************************)
(* Provider data used by the checks                                        *)
(***************************************************************************)
Season == 2024
Drivers == {1, 2}
Compounds == {"SOFT", "MEDIUM"}
NoTyre == -1                 \* TyreLife is NaN

\* session.get_driver(d) for the drivers of the modelled sessions
DriverInfo ==
    [d \in Drivers \cup {NoDriver} |->
        CASE d = 1 -> [known |-> TRUE, Abbreviation |-> <<"VER">>,
                       FirstName |-> <<"Max">>, LastName |-> <<"Verstappen">>]
          [] d = 2 -> [known |-> TRUE, Abbreviation |-> <<"Ham">>,
                       FirstName |-> <<>>, LastName |-> <<"Hamilton">>]
          [] OTHER -> [known |-> FALSE, Abbreviation |-> <<>>,
                       FirstName |-> <<>>, LastName |-> <<>>]]

\* rows of driver_identity_map, already keyed by row[0].upper()
IdentityTable == (<<"VER">> :> <<"max", "_", "verstappen">>)
NoIdentities == [k \in {} |-> <<>>]

ModelSession == [drivers |-> DriverInfo,
                 EventName |-> <<"Bahrain", " ", "Grand", " ", "Prix">>]

\* One provider lap
RawLap(d, n, t, pin, pout, comp, status, acc, gap, pos) ==
    [DriverNumber |-> d, LapNumber |-> n, LapTime |-> t, PitInTime |-> pin,
     PitOutTime |-> pout, Compound |-> comp, TyreLife |-> NoTyre,
     TrackStatus |-> status, IsAccurate |-> acc, GapToLeader |-> gap,
     Position |-> pos]

\* The next lap number of driver d in frame f (the provider numbers a driver's
\* laps consecutively, one row per driver and lap)
NextLap(f, d) == 1 + Cardinality({i \in 1..Len(f) : f[i].DriverNumber = d})

NoOutput == [records |-> <<>>, source |-> <<>>, skipped_before |-> 0, skipped_count |-> 0]

(***************************************************************************)
(* Part 2.  PostgreSQL, psycopg2 and the loader                            *)
(*                                                                         *)
(* db = [committed, tx, view]: the committed rows of laps_normalized, the  *)
(* session's transaction status ("idle", "open", "aborted") and the table  *)
(* as the session sees it.  Runs are serialized: one session at a time.    *)
(***************************************************************************)
Rounds == 1..MaxRounds

\* ON CONFLICT (season, round, track_id, driver_id, lap_number)
ConflictKey(row) ==
    <<row.season, row.round, row.track_id, row.driver_id, row.lap_number>>

\* an ON CONFLICT clause that replaces the stored row by the proposed one
UpsertRowOverwrite(table, row) ==
    {e \in table : ConflictKey(e) # ConflictKey(row)} \cup {row}

\* INSERT ... ON CONFLICT DO UPDATE SET ... of one row
UpsertRow(table, row) ==
    IF \E e \in table : ConflictKey(e) = ConflictKey(row)
    THEN LET e == CHOOSE x \in table : ConflictKey(x) = ConflictKey(row)
         IN  (table \ {e}) \cup
             {[e EXCEPT !.session_type = row.session_type,
                        !.stint_id = row.stint_id,
                        !.stint_lap_index = row.stint_lap_index,
                        !.is_pit_lap = row.is_pit_lap,
                        !.is_out_lap = row.is_out_lap,
                        !.is_in_lap = row.is_in_lap]}
    ELSE table \cup {row}

RECURSIVE UpsertPage(_, _)
UpsertPage(table, page) ==
    IF page = <<>> THEN table
    ELSE UpsertPage(UpsertRow(table, Head(page)), Tail(page))

\* PostgreSQL rejects a statement that proposes the same conflict key twice
PageHasDuplicate(page) ==
    \E i, j \in 1..Len(page) : i < j /\ ConflictKey(page[i]) = ConflictKey(page[j])

\* The p-th page execute_values sends (page_size rows each)
PageOf(values, p) ==
    SubSeq(values, (p - 1) * PageSize + 1,
           IF p * PageSize < Len(values) THEN p * PageSize ELSE Len(values))
PageCount(values) == (Len(values) + PageSize - 1) \div PageSize

\* the idempotency gate with its two parameters swapped in the WHERE clause
check_race_already_loaded_swapped(table, season, round_number) ==
    Cardinality({row \in table : row.season = round_number /\ row.round = season}) > 0

\* the idempotency gate with a WHERE clause that names the season only
check_race_already_loaded_season(table, season, round_number) ==
    Cardinality({row \in table : row.season = season}) > 0

\* SELECT COUNT(*) ... WHERE season = %s AND round = %s; count > 0
check_race_already_loaded(table, season, round_number) ==
    Cardinality({row \in table : row.season = season /\ row.round = round_number}) > 0

RowsOf(table, round_number) == {row \in table : row.round = round_number}

\* Server side of the statements the loader sends
\* BEGIN without a transaction block
SrvBeginNone(s) == s
\* cur.execute("BEGIN"): a warning inside a transaction
SrvBegin(s) == IF s.tx = "idle" THEN [s EXCEPT !.tx = "open", !.view = s.committed] ELSE s
\* the BEGIN psycopg2 sends by itself before the first statement of a connection
\* that is not in autocommit mode
ImplicitBegin(s) == IF s.tx = "idle" THEN [s EXCEPT !.tx = "open", !.view = s.committed] ELSE s
\* INSERT that takes effect at once, outside the transaction
SrvInsertAutocommit(s, page) ==
    [s EXCEPT !.committed = UpsertPage(s.committed, page),
              !.view = UpsertPage(s.view, page)]
SrvInsert(s, page) ==
    IF s.tx = "open" THEN [s EXCEPT !.view = UpsertPage(s.view, page)]
    ELSE [s EXCEPT !.committed = UpsertPage(s.committed, page),
                   !.view = UpsertPage(s.committed, page)]
\* a COMMIT that the loader leaves to the end of the run
SrvCommitDeferred(s) == s
\* cur.execute("COMMIT") and conn.commit()
SrvCommit(s) ==
    IF s.tx = "open" THEN [s EXCEPT !.tx = "idle", !.committed = s.view]
    ELSE [s EXCEPT !.tx = "idle", !.view = s.committed]
SrvRollback(s) == [s EXCEPT !.tx = "idle", !.view = s.committed]
SrvRead(s) == s
\* a statement ended in an error: an open transaction becomes aborted
SrvFail(s) == IF s.tx = "open" THEN [s EXCEPT !.tx = "aborted"] ELSE s
\* the session ended (connection lost or closed): its transaction is rolled back
SrvEnd(s) == [s EXCEPT !.tx = "idle", !.view = s.committed]

\* What cursor.execute of one statement can do.  psycopg2 (autocommit off) sends
\* BEGIN before the first statement of a connection; a statement other than
\* COMMIT/ROLLBACK raises inside an aborted transaction; a fault may be injected
\* into it ("error": the statement fails, "lost": the connection breaks).
Outcomes(after, inAborted, kinds) ==
    LET c1 == IF conn = "ready" THEN "begin" ELSE conn
        s1 == IF conn = "ready" THEN ImplicitBegin(db) ELSE db
        regular ==
            IF conn = "lost" THEN {[ok |-> FALSE, db |-> db, conn |-> conn, fault |-> 0]}
            ELSE IF s1.tx = "aborted" /\ ~inAborted
                 THEN {[ok |-> FALSE, db |-> s1, conn |-> c1, fault |-> 0]}
                 ELSE {[ok |-> TRUE, db |-> after, conn |-> c1, fault |-> 0]}
        injected ==
            IF conn = "lost" \/ faults >= MaxFaults THEN {}
            ELSE {[ok |-> FALSE, db |-> SrvFail(s1), conn |-> c1, fault |-> 1] :
                        k \in kinds \cap {"error"}}
                 \cup {[ok |-> FALSE, db |-> SrvEnd(s1), conn |-> "lost", fault |-> 1] :
                        k \in kinds \cap {"lost"}}
                 \cup {[ok |-> FALSE, db |-> SrvEnd(after), conn |-> "lost", fault |-> 1] :
                        k \in kinds \cap {"lost-after"}}
    IN  regular \cup injected

\* the session as the next statement finds it (after psycopg2's implicit BEGIN)
Session == IF conn = "ready" THEN ImplicitBegin(db) ELSE db

(***************************************************************************)
(* Provider answers of the loader runs                                     *)
(***************************************************************************)
EmptyFrame == <<>>
\* a session whose only lap has no duration
DeadFrame == <<RawLap(1, 1, NoTime, FALSE, FALSE, "SOFT", {1}, TRUE, NoGap, 1)>>
\* two laps of driver 1 (a stop after lap 1) and one lap of driver 2
GoodFrame ==
    <<RawLap(1, 1, 1000400, TRUE, FALSE, "SOFT", {1}, TRUE, NoGap, 1),
      RawLap(2, 1, 3000400, FALSE, FALSE, "MEDIUM", {1}, TRUE, NoGap, 2),
      RawLap(1, 2, 2500400, FALSE, TRUE, "MEDIUM", {1}, TRUE, NoGap, 1)>>
ProviderFrames == {EmptyFrame, DeadFrame, GoodFrame}

ZeroMetrics ==
    [races_processed |-> 0, races_skipped |-> 0, races_failed |-> 0,
     total_laps_inserted |-> 0]

\* required_columns of validate_database_schema (the expected types are not
\* compared with anything)
RequiredColumns ==
    {"season", "round", "track_id", "driver_id", "lap_number", "stint_id",
     "stint_lap_index", "lap_time_seconds", "is_valid_lap", "is_pit_lap",
     "is_out_lap", "is_in_lap", "clean_air_flag"}

\* the check that only looks whether the table exists
validate_table_only(actual_columns) == actual_columns # {}

\* validate_database_schema, given the columns information_schema lists for
\* laps_normalized: False when there are none or a required one is missing
validate_database_schema(actual_columns) ==
    /\ actual_columns # {}
    /\ \A col_name \in RequiredColumns : col_name \in actual_columns

\* laps_normalized as a run can find it: absent, without clean_air_flag, or
\* with every column the loaders use
TableColumns ==
    {{}, RequiredColumns \ {"clean_air_flag"},
     RequiredColumns \cup {"session_type", "compound", "tyre_age_laps"}}

\* Locals of a load_race_data call.  Besides round, frame (session.laps),
\* transformed (transformed_laps) and page (the page execute_values sends next)
\* the record notes what happened to the call, for the claims: the provider
\* answered (fetch_ok), a database statement raised (db_raised), execute_values
\* raised (insert_raised), a fault was injected into one of its statements
\* (own_fault); the table when it began (before), whether an earlier call for the
\* round returned 'success' (prior_success), whether the connection was alive
\* (alive_start) and outside an aborted transaction (healthy_start) when it
\* began, and whether the call before it in this run began healthy and returned
\* 'failed' (follows_failed).
NoCall ==
    [round |-> 0, frame |-> <<>>, transformed |-> <<>>, page |-> 0,
     fetch_ok |-> FALSE, db_raised |-> FALSE,
     insert_raised |-> FALSE, own_fault |-> FALSE, alive_start |-> FALSE,
     healthy_start |-> FALSE, follows_failed |-> FALSE,
     before |-> {}, prior_success |-> FALSE]

\* What is kept of the call that returned last
NoLast ==
    [run |-> 0, round |-> 0, status |-> "none", laps_inserted |-> 0,
     frame |-> <<>>, page |-> 0, fetch_ok |-> FALSE, db_raised |-> FALSE,
     insert_raised |-> FALSE, own_fault |-> FALSE, alive_start |-> FALSE,
     healthy_start |-> FALSE, follows_failed |-> FALSE,
     before |-> {}, after |-> {}, prior_success |-> FALSE]

\* History of the current run, kept for the claims: the number of audit rows
\* and the rows of laps_normalized (laps_before) when it started, the statuses its load_race_data calls have returned, and
\* whether the query of load_driver_identity_map raised, and how write_audit_log
\* ended ("none": not called yet, "written", "raised": its except branch ran).
NoSeen ==
    [rows_before |-> 0, statuses |-> {}, idmap_raised |-> FALSE, audit |-> "none",
     laps_before |-> {}]

LoaderInit ==
    /\ db = [committed |-> {}, tx |-> "idle", view |-> {},
             columns |-> RequiredColumns]
    /\ conn = "none"
    /\ mpc = "off"
    /\ run_no = 0
    /\ todo = <<>>
    /\ metrics = ZeroMetrics
    /\ identity_map = NoIdentities
    /\ lpc = "none"
    /\ call = NoCall
    /\ last = NoLast
    /\ succeeded = {}
    /\ produced = [r \in Rounds |-> {}]
    /\ faults = 0
    /\ etl_runs = [count |-> 0, newest |-> <<>>]
    /\ args = [season |-> Season, round |-> 0]
    /\ exit_code = 0
    /\ seen = NoSeen

NoUpsert == [pc |-> "idle", stored |-> {}, values |-> <<>>, result |-> {}]
NoFingerprints == <<>>
\* main before it has read its arguments: season and round are the values of
\* --season and --round, rounds_to_process the list main builds, next the
\* position of its for loop, processed the rounds handed to load_race_data
NoRound == -1            \* --round is absent (args.round is None)
NoRounds ==
    [pc |-> "off", season |-> 0, round |-> NoRound, rounds_to_process |-> <<>>,
     next |-> 1, processed |-> <<>>]
\* Two load_race_data calls, one per race of RacePair, each on a connection of
\* its own.  inp are the inputs of the pair: whether the race has rows of an
\* earlier run, what the provider answers, the statement of the call that
\* raises.  phase "serial" runs race 1 to its return and then race 2, phase
\* "any" runs them in any interleaving from the same table; committed is
\* laps_normalized as committed, ses the calls, serial the result of phase
\* "serial".
\* overlapped: a call has written rows while the other call held rows
\* of its own that it had not yet committed.
NoPar ==
    [phase |-> "off", inp |-> <<>>, rev |-> FALSE, committed |-> {}, ses |-> <<>>,
     overlapped |-> FALSE, serial |-> [status |-> <<>>, committed |-> {}]]
\* No run has been killed.  Of a killed run the record keeps its number and
\* arguments, and the committed rows and the faults injected when it died.
NoKill ==
    [run |-> 0, args |-> [season |-> Season, round |-> 0], committed |-> {},
     faults |-> 0]
\* The qualifying loader before its first call: qualifying_sessions,
\* qualifying_results and qualifying_laps are empty (committed: what is
\* committed, view: what the connection's transaction sees), no transaction is
\* open; nres and nlaps are the records extract_qualifying_results and
\* extract_qualifying_laps return for the session fetched.  prior remembers the
\* session of the latest call that returned 'success'.
NoTables == [sessions |-> {}, results |-> {}, laps |-> {}]
NoPrior == [success |-> FALSE, nres |-> 0, nlaps |-> 0]
NoQual ==
    [pc |-> "off", calls |-> 0, nres |-> 0, nlaps |-> 0, tx |-> "idle",
     conn |-> "none", committed |-> NoTables, view |-> NoTables,
     status |-> "none", results_count |-> 0, laps_count |-> 0, faults |-> 0,
     prior |-> NoPrior]
OtherIdle ==
    upsert = NoUpsert /\ fp = NoFingerprints /\ rounds = NoRounds /\ par = NoPar
    /\ killed = NoKill /\ qual = NoQual

TransformIdle == frame = <<>> /\ tpc = "idle" /\ tout = NoOutput /\ OtherIdle

Init == variant \in Variants /\ LoaderInit /\ TransformIdle

(***************************************************************************)
(* main                                                                    *)
(***************************************************************************)

\* main up to the schema check: parse the arguments, connect.  The table is as
\* this run finds it (migrations happen between runs).
StartRun ==
    /\ mpc = "off" /\ run_no < MaxRuns
    /\ \E actual_columns \in TableColumns :
         db' = [db EXCEPT !.columns = actual_columns]
    /\ \E round_arg \in 0..MaxRounds :
         /\ args' = [season |-> Season, round |-> round_arg]
         /\ todo' = IF round_arg # 0 THEN <<round_arg>>
                    ELSE [i \in 1..MaxRounds |-> i]
    /\ run_no' = run_no + 1
    /\ conn' = "ready"
    /\ metrics' = ZeroMetrics
    /\ identity_map' = NoIdentities
    /\ mpc' = "validate"
    /\ seen' = [NoSeen EXCEPT !.rows_before = etl_runs.count,
                              !.laps_before = db.committed]
    /\ UNCHANGED <<variant, transformVars, lpc, call, last, succeeded,
                   produced, faults, etl_runs, exit_code>>

\* validate_database_schema and the exit that follows a False
ValidateSchema ==
    /\ mpc = "validate"
    /\ \E o \in Outcomes(SrvRead(Session), FALSE, {"error", "lost"}) :
         /\ faults' = faults + o.fault
         /\ IF o.ok /\ validate_database_schema(o.db.columns)
            THEN /\ mpc' = IF variant = "multi" THEN "idmap" ELSE "loop"
                 /\ db' = o.db /\ conn' = o.conn
                 /\ UNCHANGED <<exit_code, seen>>
            ELSE /\ mpc' = "off"
                 /\ db' = SrvEnd(o.db) /\ conn' = "none"
                 /\ exit_code' = 1
                 /\ seen' = NoSeen
    /\ UNCHANGED <<variant, transformVars, run_no, todo, metrics, identity_map,
                   lpc, call, last, succeeded, produced, etl_runs, args>>

\* load_driver_identity_map (ingest-laps.py only): any exception is caught and
\* leaves the map empty
LoadIdentityMap ==
    /\ mpc = "idmap"
    /\ \E o \in Outcomes(SrvRead(Session), FALSE, {"error", "lost"}),
          table \in {IdentityTable, NoIdentities} :
         /\ faults' = faults + o.fault
         /\ db' = o.db /\ conn' = o.conn
         /\ identity_map' = IF o.ok THEN table ELSE NoIdentities
         /\ seen' = [seen EXCEPT !.idmap_raised = ~o.ok]
    /\ mpc' = "loop"
    /\ UNCHANGED <<variant, transformVars, run_no, todo, metrics, lpc, call,
                   last, succeeded, produced, etl_runs, args, exit_code>>

\* the counters with a skipped race counted as failed
CountSkippedAsFailed(m, status, laps_inserted) ==
    IF status = "success"
    THEN [m EXCEPT !.races_processed = @ + 1,
                   !.total_laps_inserted = @ + laps_inserted]
    ELSE [m EXCEPT !.races_failed = @ + 1]

\* The body of "for round_num in rounds_to_process" after load_race_data has
\* returned: the counters of ETLMetrics
Count(m, status, laps_inserted) ==
    IF status = "success"
    THEN [m EXCEPT !.races_processed = @ + 1,
                   !.total_laps_inserted = @ + laps_inserted]
    ELSE IF status = "skipped" THEN [m EXCEPT !.races_skipped = @ + 1]
    ELSE [m EXCEPT !.races_failed = @ + 1]

\* load_race_data returns to main: c is the call, d/cn the database and the
\* connection as the call leaves them
Return(status, laps_inserted, c, d, cn) ==
    /\ last' = [run |-> run_no, round |-> c.round, status |-> status,
                laps_inserted |-> laps_inserted, frame |-> c.frame,
                page |-> c.page, fetch_ok |-> c.fetch_ok,
                db_raised |-> c.db_raised,
                insert_raised |-> c.insert_raised, own_fault |-> c.own_fault,
                alive_start |-> c.alive_start,
                healthy_start |-> c.healthy_start,
                follows_failed |-> c.follows_failed,
                before |-> c.before, after |-> d.committed,
                prior_success |-> c.prior_success]
    /\ metrics' = Count(metrics, status, laps_inserted)
    /\ succeeded' = IF status = "success" THEN succeeded \cup {c.round} ELSE succeeded
    /\ seen' = [seen EXCEPT !.statuses = @ \cup {status}]
    /\ db' = d /\ conn' = cn
    /\ lpc' = "none"
    /\ call' = NoCall

\* main hands the next round to load_race_data
BeginRace ==
    /\ mpc = "loop" /\ lpc = "none" /\ todo # <<>>
    /\ call' = [NoCall EXCEPT !.round = Head(todo),
                              !.before = db.committed,
                              !.alive_start = (conn # "lost"),
                              !.healthy_start = (conn # "lost" /\ db.tx # "aborted"),
                              !.follows_failed = (/\ last.run = run_no
                                                  /\ last.status = "failed"
                                                  /\ last.healthy_start),
                              !.prior_success = (Head(todo) \in succeeded)]
    /\ todo' = Tail(todo)
    /\ lpc' = "fetch"
    /\ UNCHANGED <<variant, transformVars, db, conn, mpc, run_no, metrics,
                   identity_map, last, succeeded, produced, faults, etl_runs,
                   args, exit_code, seen>>

(***************************************************************************)
(* load_race_data, one action per interaction with the provider or the     *)
(* database                                                                *)
(***************************************************************************)
loadFrame == <<variant, transformVars, mpc, run_no, todo, identity_map,
               etl_runs, args, exit_code>>

\* fastf1.get_session / session.load raise: the outer except returns 'failed'
FetchRaises ==
    /\ lpc = "fetch"
    /\ Return("failed", 0, call, db, conn)
    /\ UNCHANGED <<loadFrame, produced, faults>>

\* the provider answers with a session
FetchLoads ==
    /\ lpc = "fetch"
    /\ \E f \in ProviderFrames :
         call' = [call EXCEPT !.frame = f, !.fetch_ok = TRUE]
    /\ lpc' = "check"
    /\ UNCHANGED <<loadFrame, db, conn, metrics, last, succeeded, seen, produced,
                   faults>>

\* check_race_already_loaded raises (outer except)
CheckRaises ==
    /\ lpc = "check"
    /\ \E o \in Outcomes(SrvRead(Session), FALSE, {"error", "lost"}) :
         /\ ~o.ok
         /\ faults' = faults + o.fault
         /\ Return("failed", 0,
                   [call EXCEPT !.db_raised = TRUE, !.own_fault = (o.fault = 1)],
                   o.db, o.conn)
    /\ UNCHANGED <<loadFrame, produced>>

\* the race has rows: 'skipped'
CheckSkips ==
    /\ lpc = "check"
    /\ \E o \in Outcomes(SrvRead(Session), FALSE, {}) :
         /\ o.ok
         /\ check_race_already_loaded(o.db.view, args.season, call.round)
         /\ Return("skipped", 0, call, o.db, o.conn)
    /\ UNCHANGED <<loadFrame, produced, faults>>

\* the race has no rows and session.laps is empty: 'failed'
CheckNoLaps ==
    /\ lpc = "check"
    /\ \E o \in Outcomes(SrvRead(Session), FALSE, {}) :
         /\ o.ok
         /\ ~check_race_already_loaded(o.db.view, args.season, call.round)
         /\ call.frame = <<>>
         /\ Return("failed", 0, call, o.db, o.conn)
    /\ UNCHANGED <<loadFrame, produced, faults>>

\* the race has no rows: transform_lap_data; no record survives: 'failed',
\* else go on to the transaction
CheckTransforms ==
    /\ lpc = "check"
    /\ \E o \in Outcomes(SrvRead(Session), FALSE, {}), rev \in BOOLEAN :
         /\ o.ok
         /\ ~check_race_already_loaded(o.db.view, args.season, call.round)
         /\ call.frame # <<>>
         /\ LET track_id == TrackId(variant, ModelSession.EventName)
                transformed_laps ==
                    transform_lap_data(variant, call.frame, ModelSession, args.season,
                                       call.round, track_id, identity_map, rev).records
            IN  IF transformed_laps = <<>>
                THEN /\ Return("failed", 0, call, o.db, o.conn)
                     /\ UNCHANGED produced
                ELSE /\ call' = [call EXCEPT !.transformed = transformed_laps]
                     /\ produced' = [produced EXCEPT
                                       ![call.round] = @ \cup {Range(transformed_laps)}]
                     /\ db' = o.db /\ conn' = o.conn
                     /\ lpc' = "begin"
                     /\ UNCHANGED <<metrics, last, succeeded, seen>>
    /\ UNCHANGED <<loadFrame, faults>>

\* cur.execute("BEGIN"); when it raises the outer except returns 'failed'
Begin ==
    /\ lpc = "begin"
    /\ \E o \in Outcomes(SrvBegin(Session), FALSE, {"lost"}) :
         /\ faults' = faults + o.fault
         /\ IF o.ok
            THEN /\ lpc' = "insert"
                 /\ call' = [call EXCEPT !.page = 1]
                 /\ db' = o.db /\ conn' = o.conn
                 /\ UNCHANGED <<metrics, last, succeeded, seen>>
            ELSE Return("failed", 0,
                        [call EXCEPT !.db_raised = TRUE, !.own_fault = (o.fault = 1)],
                        o.db, o.conn)
    /\ UNCHANGED <<loadFrame, produced>>

\* execute_values: the next page of rows, one INSERT ... ON CONFLICT statement
InsertPage ==
    /\ lpc = "insert"
    /\ LET page == PageOf(call.transformed, call.page)
           outs == IF PageHasDuplicate(page) /\ conn # "lost" /\ Session.tx # "aborted"
                   THEN {[ok |-> FALSE, db |-> SrvFail(Session), conn |-> conn, fault |-> 0]}
                   ELSE Outcomes(SrvInsert(Session, page), FALSE, {"error", "lost"})
       IN  \E o \in outs :
             /\ faults' = faults + o.fault
             /\ db' = o.db /\ conn' = o.conn
             /\ IF o.ok
                THEN IF call.page < PageCount(call.transformed)
                     THEN /\ call' = [call EXCEPT !.page = @ + 1]
                          /\ lpc' = "insert"
                     ELSE /\ call' = call
                          /\ lpc' = "commit"
                ELSE /\ call' = [call EXCEPT !.insert_raised = TRUE,
                                             !.own_fault = @ \/ (o.fault = 1)]
                     /\ lpc' = "rollback"
    /\ UNCHANGED <<loadFrame, metrics, last, succeeded, seen, produced>>

\* cur.execute("COMMIT") and the return of 'success'; when COMMIT raises the
\* inner except takes over.  A connection that breaks during COMMIT may break
\* before or after the server has committed.
Commit ==
    /\ lpc = "commit"
    /\ \E o \in Outcomes(SrvCommit(Session), TRUE, {"error", "lost", "lost-after"}) :
         /\ faults' = faults + o.fault
         /\ IF o.ok
            THEN Return("success", Len(call.transformed), call, o.db, o.conn)
            ELSE /\ call' = [call EXCEPT !.own_fault = @ \/ (o.fault = 1)]
                 /\ db' = o.db /\ conn' = o.conn
                 /\ lpc' = "rollback"
                 /\ UNCHANGED <<metrics, last, succeeded, seen>>
    /\ UNCHANGED <<loadFrame, produced>>

\* the inner except: cur.execute("ROLLBACK") and the return of 'failed'; when
\* ROLLBACK raises the outer except returns 'failed'
Rollback ==
    /\ lpc = "rollback"
    /\ \E o \in Outcomes(SrvRollback(Session), TRUE, {"lost"}) :
         /\ faults' = faults + o.fault
         /\ Return("failed", 0,
                   [call EXCEPT !.db_raised = ~o.ok,
                                !.own_fault = @ \/ (o.fault = 1)],
                   o.db, o.conn)
    /\ UNCHANGED <<loadFrame, produced>>

(***************************************************************************)
(* The end of main                                                         *)
(***************************************************************************)

\* Strings are sequences of one-character strings.
Digits == <<"0", "1", "2", "3", "4", "5", "6", "7", "8", "9">>

\* str(n) of a natural number: decimal, no leading zero
RECURSIVE Decimal(_)
Decimal(n) ==
    IF n < 10 THEN <<Digits[n + 1]>>
    ELSE Decimal(n \div 10) \o <<Digits[(n % 10) + 1]>>

\* format(n) of an int inside an f-string
IntStr(n) == IF n < 0 THEN <<"-">> \o Decimal(0 - n) ELSE Decimal(n)

\* what each program writes in front of the season
HashPrefix(program) ==
    IF program = "qualifying"
    THEN <<"q", "u", "a", "l", "i", "f", "y", "i", "n", "g", ":">>
    ELSE <<>>

\* the f-string with the separators left out
HashInputNoSeparator(program, season, round_number, source_version) ==
    HashPrefix(program) \o IntStr(season) \o IntStr(round_number) \o source_version

\* execution_data: compute_execution_hash hashes this string
HashInput(program, season, round_number, source_version) ==
    HashPrefix(program) \o IntStr(season) \o <<":">> \o IntStr(round_number)
        \o <<":">> \o source_version

\* The digest is modelled as a function of the string alone with a range far
\* smaller than its domain: equal strings give equal digests, different
\* strings may or may not.
Alphabet ==
    Digits \o <<":", ".", "-", "q", "u", "a", "l", "i", "f", "y", "n", "g", "s", "t">>
CharCode(c) == CHOOSE i \in 1..Len(Alphabet) : Alphabet[i] = c
RECURSIVE Digest(_)
Digest(data) ==
    IF data = <<>> THEN 7
    ELSE (31 * Digest(SubSeq(data, 1, Len(data) - 1)) + CharCode(data[Len(data)])) % 256

compute_execution_hash(program, season, round_number, source_version) ==
    Digest(HashInput(program, season, round_number, source_version))

\* f"fastf1-{fastf1.__version__}" with the installed provider library
FastF1Version == <<"f", "a", "s", "t", "f", "1", "-", "3", ".", "1">>

\* the INSERT of write_audit_log, run once for each race
AuditInsertPerRace(table, row) ==
    [count |-> table.count + row.races_processed + row.races_skipped + row.races_failed,
     newest |-> <<row>>]

\* the INSERT INTO etl_runs_laps_normalized of write_audit_log
AuditInsert(table, row) == [count |-> table.count + 1, newest |-> <<row>>]

\* write_audit_log: CREATE TABLE IF NOT EXISTS, INSERT, conn.commit(); any
\* exception is caught and nothing is written
WriteAuditLog ==
    /\ mpc = "loop" /\ lpc = "none" /\ todo = <<>>
    /\ \E o \in Outcomes(SrvCommit(Session), FALSE, {"error", "lost"}) :
         /\ faults' = faults + o.fault
         /\ db' = o.db
         /\ conn' = IF o.ok THEN "ready" ELSE o.conn
         /\ etl_runs' =
              IF o.ok
              THEN AuditInsert(etl_runs,
                     [season |-> args.season,
                      status |-> IF metrics.races_failed = 0 THEN "success"
                                 ELSE "partial_failure",
                      races_processed |-> metrics.races_processed,
                      races_skipped |-> metrics.races_skipped,
                      races_failed |-> metrics.races_failed,
                      total_laps_inserted |-> metrics.total_laps_inserted,
                      execution_hash |->
                          HashInput("laps", args.season,
                                    IF args.round # 0 THEN args.round
                                    ELSE IF MaxRounds = 1 THEN 1 ELSE 0,
                                    FastF1Version)])
              ELSE etl_runs
         /\ seen' = [seen EXCEPT !.audit = IF o.ok THEN "written" ELSE "raised"]
    /\ mpc' = "exit"
    /\ UNCHANGED <<variant, transformVars, run_no, todo, metrics, identity_map,
                   lpc, call, last, succeeded, produced, args, exit_code>>

\* the exit code with skipped races treated like failed ones
ExitCodeSkippedToo(m) == IF m.races_failed + m.races_skipped > 0 THEN 1 ELSE 0

\* "if metrics.races_failed > 0: sys.exit(1) else: sys.exit(0)"
ExitCode(m) == IF m.races_failed > 0 THEN 1 ELSE 0

\* conn.close() and sys.exit
Exit ==
    /\ mpc = "exit"
    /\ db' = SrvEnd(db)
    /\ conn' = "none"
    /\ exit_code' = ExitCode(metrics)
    /\ mpc' = "off"
    \* the process is gone, and its locals with it
    /\ metrics' = ZeroMetrics
    /\ identity_map' = NoIdentities
    /\ last' = NoLast
    /\ seen' = NoSeen
    /\ UNCHANGED <<variant, transformVars, run_no, todo, lpc, call, succeeded,
                   produced, faults, etl_runs, args>>

Next ==
    \/ StartRun \/ ValidateSchema \/ LoadIdentityMap \/ BeginRace
    \/ FetchRaises \/ FetchLoads
    \/ CheckRaises \/ CheckSkips \/ CheckNoLaps \/ CheckTransforms
    \/ Begin \/ InsertPage \/ Commit \/ Rollback
    \/ WriteAuditLog \/ Exit

Spec == Init /\ [][Next]_vars

(***************************************************************************)
(* SpecKill: the runs of Spec, one of which an external kill may end at    *)
(* any point between its start and its sys.exit.                           *)
(***************************************************************************)
\* The process is killed (SIGKILL: no handler, no finally clause runs): the
\* server ends its session, which rolls back the transaction under way; what
\* was committed stays, the audit row included.
Kill ==
    /\ mpc # "off" /\ killed.run = 0
    /\ killed' = [run |-> run_no, args |-> args, committed |-> db.committed,
                  faults |-> faults]
    /\ db' = SrvEnd(db)
    /\ conn' = "none"
    /\ mpc' = "off" /\ lpc' = "none"
    /\ exit_code' = 137
    \* the process is gone, and its locals with it
    /\ call' = NoCall /\ todo' = <<>>
    /\ metrics' = ZeroMetrics
    /\ identity_map' = NoIdentities
    /\ last' = NoLast
    /\ seen' = NoSeen
    /\ UNCHANGED <<variant, frame, tpc, tout, upsert, fp, qual, rounds, par, run_no, succeeded,
                   produced, faults, etl_runs, args>>

SpecKill == Init /\ [][Next \/ Kill]_vars

(***************************************************************************)
(* Specifications of Part 1: a provider frame is drawn row by row, then    *)
(* transform_lap_data is applied to it.                                    *)
(***************************************************************************)
InitBuild ==
    /\ variant \in Variants
    /\ LoaderInit
    /\ frame = <<>> /\ tpc = "build" /\ tout = NoOutput
    /\ OtherIdle

\* transform_lap_data(laps, session, season, round_number, track_id[, identity_map])
ApplyTransform ==
    /\ tpc = "build" /\ frame # <<>>
    /\ \E rev \in BOOLEAN :
         tout' = transform_lap_data(variant, frame, ModelSession, Season, 1,
                                    TrackId(variant, ModelSession.EventName),
                                    IdentityTable, rev)
    /\ tpc' = "done"
    /\ UNCHANGED <<variant, frame, otherVars, loaderVars>>

\* SpecStint: rows vary in what the filter and the stint detectors read
AddLapStint ==
    /\ tpc = "build" /\ Len(frame) < MaxLaps
    /\ \E d \in Drivers \cup {NoDriver}, t \in {NoTime, 1000400},
          comp \in Compounds, pin \in BOOLEAN, pout \in BOOLEAN :
         \* a dropped lap lacks the driver key or (a lap of driver 1) the
         \* duration; what it carries besides is never read
         /\ (d = NoDriver \/ t = NoTime) => (comp = "SOFT" /\ ~pin /\ ~pout)
         /\ (d = NoDriver) => t # NoTime
         /\ (t = NoTime) => d = 1
         /\ frame' = Append(frame, RawLap(d, NextLap(frame, d), t, pin, pout, comp,
                                          {1}, TRUE, NoGap, NoPos))
    /\ UNCHANGED <<variant, tpc, tout, otherVars, loaderVars>>

NextStint == AddLapStint \/ ApplyTransform
SpecStint == InitBuild /\ [][NextStint]_vars

\* SpecClean: complete rows without gap data; they vary in duration and in the
\* exclusion condition they meet
LapTimes == {1000400, 2500400, 3000400}
Exclusions == {"none", "pit_in", "pit_out", "sc", "vsc", "vsc_ending", "invalid"}
StatusOf(e) ==
    CASE e = "sc" -> {4} [] e = "vsc" -> {6} [] e = "vsc_ending" -> {1, 7} [] OTHER -> {1}

AddLapClean ==
    /\ tpc = "build" /\ Len(frame) < MaxCleanLaps
    /\ \E d \in Drivers, t \in LapTimes, e \in Exclusions :
         frame' = Append(frame, RawLap(d, NextLap(frame, d), t, e = "pit_in",
                                       e = "pit_out", "SOFT", StatusOf(e),
                                       e # "invalid", NoGap, NoPos))
    /\ UNCHANGED <<variant, tpc, tout, otherVars, loaderVars>>

NextClean == AddLapClean \/ ApplyTransform
SpecClean == InitBuild /\ [][NextClean]_vars

\* SpecGap: complete rows that may carry GapToLeader and Position
AddLapGap ==
    /\ tpc = "build" /\ Len(frame) < MaxGapLaps
    /\ \E d \in Drivers, t \in {1000400, 3000400}, gap \in {NoGap, 0, 1500000, 2000000},
          pos \in 1..2, pout \in BOOLEAN :
         frame' = Append(frame, RawLap(d, NextLap(frame, d), t, FALSE, pout, "SOFT",
                                       {1}, TRUE, gap, pos))
    /\ UNCHANGED <<variant, tpc, tout, otherVars, loaderVars>>

NextGap == AddLapGap \/ ApplyTransform
SpecGap == InitBuild /\ [][NextGap]_vars

\* SpecRank: complete rows without gap data, enough of them for two drivers to
\* meet at a second lap; a lap of driver 2 may be run under the safety car
AddLapRank ==
    /\ tpc = "build" /\ Len(frame) < MaxRankLaps
    /\ \E d \in Drivers, t \in LapTimes, e \in {"none", "sc"} :
         /\ (d = 1) => e = "none"
         /\ frame' = Append(frame, RawLap(d, NextLap(frame, d), t, FALSE, FALSE, "SOFT",
                                          StatusOf(e), TRUE, NoGap, NoPos))
    /\ UNCHANGED <<variant, tpc, tout, otherVars, loaderVars>>

NextRank == AddLapRank \/ ApplyTransform
SpecRank == InitBuild /\ [][NextRank]_vars

\* SpecCompound: rows with a duration and a driver key whose Compound may be
\* missing (None or NaN); the laps of driver 2 are plain
AddLapCompound ==
    /\ tpc = "build" /\ Len(frame) < MaxCompoundLaps
    /\ \E d \in Drivers, comp \in Compounds \cup {NoneCompound, NanCompound},
          pin \in BOOLEAN, pout \in BOOLEAN :
         /\ (d # 1) => (comp = "SOFT" /\ ~pin /\ ~pout)
         /\ frame' = Append(frame, RawLap(d, NextLap(frame, d), 1000400, pin, pout,
                                          comp, {1}, TRUE, NoGap, NoPos))
    /\ UNCHANGED <<variant, tpc, tout, otherVars, loaderVars>>

NextCompound == AddLapCompound \/ ApplyTransform
SpecCompound == InitBuild /\ [][NextCompound]_vars

(***************************************************************************)
(* SpecKeys: transform_lap_data with the rows of driver_identity_map drawn *)
(* from tables the database may hold.  The loader reads the table as it    *)
(* finds it; nothing in it is checked.                                     *)
(***************************************************************************)
\* a driver_identity_map in which two ingestion ids name one f1db driver
SharedIdTable ==
    (<<"VER">> :> <<"max", "_", "verstappen">>) @@ (<<"HAM">> :> <<"max", "_", "verstappen">>)
IdentityTables == {IdentityTable, NoIdentities, SharedIdTable}

\* transform_lap_data with the identity map main has loaded
ApplyTransformMapped ==
    /\ tpc = "build" /\ frame # <<>>
    /\ \E rev \in BOOLEAN, table \in IdentityTables :
         tout' = transform_lap_data(variant, frame, ModelSession, Season, 1,
                                    TrackId(variant, ModelSession.EventName),
                                    table, rev)
    /\ tpc' = "done"
    /\ UNCHANGED <<variant, frame, otherVars, loaderVars>>

NextKeys == AddLapStint \/ ApplyTransformMapped
SpecKeys == InitBuild /\ [][NextKeys]_vars

(***************************************************************************)
(* SpecRounds: main of a lap loader from its arguments to the end of the   *)
(* loop over the rounds.                                                   *)
(***************************************************************************)
\* SEASON_RACE_COUNTS of ingest-laps.py
SEASON_RACE_COUNTS ==
    (2018 :> 21) @@ (2019 :> 21) @@ (2020 :> 17) @@ (2021 :> 22) @@ (2022 :> 22)
        @@ (2023 :> 22) @@ (2024 :> 24) @@ (2025 :> 24)
\* the end of list(range(1, 25)) of ingest-laps-2025.py, itself left out
RangeEnd2025 == 25
\* values of --season and --round
SeasonInputs == {2017, 2020, 2025}
RoundInputs == {NoRound} \cup (0..MaxRoundArg)

\* "if args.round:" is false for an absent --round and for --round 0
RoundsToProcess(v, season, round) ==
    IF round # NoRound /\ round # 0 THEN <<round>>
    ELSE IF v = "multi" THEN [i \in 1..SEASON_RACE_COUNTS[season] |-> i]
    ELSE [i \in 1..(RangeEnd2025 - 1) |-> i]

\* main up to the for loop; ingest-laps.py exits when the season is not in
\* SEASON_RACE_COUNTS, ingest-laps-2025.py takes any season
ParseArgs ==
    /\ rounds.pc = "off"
    /\ \E season \in SeasonInputs, round \in RoundInputs :
         rounds' =
            IF variant = "multi" /\ season \notin DOMAIN SEASON_RACE_COUNTS
            THEN [rounds EXCEPT !.pc = "rejected", !.season = season, !.round = round]
            ELSE [rounds EXCEPT !.pc = "loop", !.season = season, !.round = round,
                                !.rounds_to_process =
                                    RoundsToProcess(variant, season, round)]
    /\ UNCHANGED <<variant, frame, tpc, tout, upsert, fp, par, killed, qual, loaderVars>>

\* one iteration of "for round_num in rounds_to_process"
NextRound ==
    /\ rounds.pc = "loop" /\ rounds.next <= Len(rounds.rounds_to_process)
    /\ rounds' = [rounds EXCEPT !.processed = Append(@, rounds.rounds_to_process[rounds.next]),
                                !.next = @ + 1]
    /\ UNCHANGED <<variant, frame, tpc, tout, upsert, fp, par, killed, qual, loaderVars>>

\* the list is exhausted
EndRounds ==
    /\ rounds.pc = "loop" /\ rounds.next > Len(rounds.rounds_to_process)
    /\ rounds' = [rounds EXCEPT !.pc = "done"]
    /\ UNCHANGED <<variant, frame, tpc, tout, upsert, fp, par, killed, qual, loaderVars>>

InitRounds ==
    /\ variant \in Variants
    /\ LoaderInit
    /\ frame = <<>> /\ tpc = "idle" /\ tout = NoOutput
    /\ upsert = NoUpsert /\ fp = NoFingerprints
    /\ killed = NoKill /\ qual = NoQual
    /\ rounds = NoRounds /\ par = NoPar

NextRounds == ParseArgs \/ NextRound \/ EndRounds
SpecRounds == InitRounds /\ [][NextRounds]_vars

(***************************************************************************)
(* SpecPair: load_race_data for two races, each call on a connection of    *)
(* its own (READ COMMITTED: a statement sees the rows committed so far and *)
(* the rows its own transaction has written).  The pair is loaded first    *)
(* one race after the other and then, from the same table and with the     *)
(* same inputs, with the statements of the two calls in any order.         *)
(***************************************************************************)
RacePair == {1, 2}
PairFaults == {"none", "check", "insert", "commit"}
PairInputs ==
    {i \in [loaded : BOOLEAN, fetch_ok : BOOLEAN, frame : ProviderFrames,
             fault : PairFaults] : i.fetch_ok \/ i.frame = EmptyFrame}

\* transform_lap_data as load_race_data calls it for race r
PairTransform(v, r, f, rev) ==
    transform_lap_data(v, f, ModelSession, Season, r,
                       TrackId(v, ModelSession.EventName), IdentityTable, rev).records

\* laps_normalized before the pair is loaded
PairTable(v, inp, rev) ==
    UNION {IF inp[r].loaded THEN Range(PairTransform(v, r, GoodFrame, rev)) ELSE {} :
             r \in RacePair}

\* a call as it is entered
NewSession == [pc |-> "fetch", tx |-> "idle", writes |-> <<>>, transformed |-> <<>>,
               page |-> 1, status |-> "none"]

\* the table as the statements of the call for race r see it
PairView(r) == UpsertPage(par.committed, par.ses[r].writes)

\* the call for race r may take its next step
PairTurn(r) ==
    \/ par.phase = "any"
    \/ par.phase = "serial" /\ \A q \in RacePair : q < r => par.ses[q].pc = "done"

PairReturn(r, status, tx) ==
    par' = [par EXCEPT !.ses[r].pc = "done", !.ses[r].status = status,
                       !.ses[r].tx = tx, !.ses[r].writes = <<>>]

pairFrame == <<variant, frame, tpc, tout, upsert, fp, rounds, killed, qual, loaderVars>>

\* fastf1.get_session and session.load
PairFetch(r) ==
    /\ PairTurn(r) /\ par.ses[r].pc = "fetch"
    /\ IF par.inp[r].fetch_ok
       THEN par' = [par EXCEPT !.ses[r].pc = "check"]
       ELSE PairReturn(r, "failed", "idle")
    /\ UNCHANGED pairFrame

\* check_race_already_loaded (the first statement of the connection, which
\* opens its transaction), the two tests on the laps and transform_lap_data
PairCheck(r) ==
    /\ PairTurn(r) /\ par.ses[r].pc = "check"
    /\ IF par.inp[r].fault = "check" THEN PairReturn(r, "failed", "aborted")
       ELSE IF check_race_already_loaded(PairView(r), Season, r)
            THEN PairReturn(r, "skipped", "open")
       ELSE IF par.inp[r].frame = <<>> THEN PairReturn(r, "failed", "open")
       ELSE LET transformed_laps == PairTransform(variant, r, par.inp[r].frame, par.rev)
            IN  IF transformed_laps = <<>> THEN PairReturn(r, "failed", "open")
                ELSE par' = [par EXCEPT !.ses[r].pc = "insert", !.ses[r].tx = "open",
                                        !.ses[r].transformed = transformed_laps]
    /\ UNCHANGED pairFrame

\* one page of execute_values (before the first one cur.execute("BEGIN"), a
\* warning inside the open transaction).  The statement waits while the other
\* transaction holds an uncommitted row with a conflict key of the page.
PairInsert(r) ==
    /\ PairTurn(r) /\ par.ses[r].pc = "insert"
    /\ LET me == par.ses[r]
           page == PageOf(me.transformed, me.page)
       IN  /\ \A q \in RacePair \ {r} :
                 \A i \in 1..Len(page), j \in 1..Len(par.ses[q].writes) :
                    ConflictKey(page[i]) # ConflictKey(par.ses[q].writes[j])
           /\ IF par.inp[r].fault = "insert" \/ PageHasDuplicate(page)
              THEN par' = [par EXCEPT !.ses[r].pc = "rollback", !.ses[r].tx = "aborted"]
              ELSE par' = [par EXCEPT
                     !.ses[r].writes = @ \o page,
                     !.ses[r].page = @ + 1,
                     !.ses[r].pc = IF me.page < PageCount(me.transformed)
                                   THEN "insert" ELSE "commit",
                     !.overlapped = @ \/ (par.phase = "any" /\
                        \E q \in RacePair \ {r} : par.ses[q].writes # <<>>)]
    /\ UNCHANGED pairFrame

\* cur.execute("COMMIT") and the return of 'success'
PairCommit(r) ==
    /\ PairTurn(r) /\ par.ses[r].pc = "commit"
    /\ IF par.inp[r].fault = "commit"
       THEN par' = [par EXCEPT !.ses[r].pc = "rollback", !.ses[r].tx = "aborted"]
       ELSE par' = [par EXCEPT !.committed = UpsertPage(@, par.ses[r].writes),
                               !.ses[r].pc = "done", !.ses[r].status = "success",
                               !.ses[r].tx = "idle", !.ses[r].writes = <<>>]
    /\ UNCHANGED pairFrame

\* the inner except: cur.execute("ROLLBACK") and the return of 'failed'
PairRollback(r) ==
    /\ PairTurn(r) /\ par.ses[r].pc = "rollback"
    /\ PairReturn(r, "failed", "idle")
    /\ UNCHANGED pairFrame

\* both calls of the serial order have returned: the same pair again, from the
\* same table, in any order
PairAgain ==
    /\ par.phase = "serial" /\ \A r \in RacePair : par.ses[r].pc = "done"
    /\ par' = [par EXCEPT
                 !.phase = "any",
                 !.serial = [status |-> [r \in RacePair |-> par.ses[r].status],
                             committed |-> par.committed],
                 !.committed = PairTable(variant, par.inp, par.rev),
                 !.ses = [r \in RacePair |-> NewSession]]
    /\ UNCHANGED pairFrame

InitPair ==
    /\ variant \in Variants
    /\ LoaderInit
    /\ frame = <<>> /\ tpc = "idle" /\ tout = NoOutput
    /\ upsert = NoUpsert /\ fp = NoFingerprints /\ rounds = NoRounds
    /\ killed = NoKill /\ qual = NoQual
    /\ \E inp \in [RacePair -> PairInputs], rev \in BOOLEAN :
         par = [phase |-> "serial", inp |-> inp, rev |-> rev,
                committed |-> PairTable(variant, inp, rev),
                ses |-> [r \in RacePair |-> NewSession],
                overlapped |-> FALSE,
                serial |-> [status |-> <<>>, committed |-> {}]]

NextPair ==
    \/ \E r \in RacePair :
         PairFetch(r) \/ PairCheck(r) \/ PairInsert(r) \/ PairCommit(r) \/ PairRollback(r)
    \/ PairAgain
SpecPair == InitPair /\ [][NextPair]_vars

(***************************************************************************)
(* SpecUpsert: one INSERT ... ON CONFLICT statement against a table that   *)
(* may hold rows with the keys it proposes.                                *)
(***************************************************************************)
\* a row of round 1 of driver 1: mut picks the values of the columns the
\* DO UPDATE SET list names, imm those of the other non-key columns
LapRow(lap_number, mut, imm) ==
    [season |-> Season, round |-> 1,
     track_id |-> TrackId("multi", ModelSession.EventName),
     driver_id |-> <<"max", "_", "verstappen">>,
     session_type |-> IF mut = 1 THEN "R" ELSE "S",
     lap_number |-> lap_number,
     stint_id |-> mut, stint_lap_index |-> 3 - mut,
     lap_time_seconds |-> 1000 * imm,
     is_valid_lap |-> (imm = 1),
     is_pit_lap |-> (mut = 2), is_out_lap |-> (mut = 2), is_in_lap |-> (mut = 1),
     clean_air_flag |-> (imm = 2),
     compound |-> IF imm = 1 THEN "SOFT" ELSE "MEDIUM",
     tyre_age_laps |-> IF imm = 1 THEN NoTyre ELSE 5]

LapRows == {LapRow(n, mut, imm) : n \in 1..2, mut \in 1..2, imm \in 1..2}

\* tables that respect the unique key of laps_normalized
StoredTables ==
    {t \in SUBSET LapRows :
        \A a, b \in t : ConflictKey(a) = ConflictKey(b) => a = b}

\* VALUES lists of one statement
ValueLists ==
    UNION {[1..n -> LapRows] : n \in 1..MaxValues}

InitUpsert ==
    /\ variant \in Variants
    /\ LoaderInit
    /\ frame = <<>> /\ tpc = "idle" /\ tout = NoOutput /\ fp = NoFingerprints
    /\ killed = NoKill /\ qual = NoQual /\ rounds = NoRounds /\ par = NoPar
    /\ \E t \in StoredTables, v \in ValueLists :
         upsert = [pc |-> "ready", stored |-> t, values |-> v, result |-> {}]

\* the statement runs: it fails as a whole when it proposes a key twice
ExecuteUpsert ==
    /\ upsert.pc = "ready"
    /\ upsert' = [upsert EXCEPT
                    !.pc = IF PageHasDuplicate(upsert.values) THEN "raised" ELSE "done",
                    !.result = IF PageHasDuplicate(upsert.values) THEN upsert.stored
                               ELSE UpsertPage(upsert.stored, upsert.values)]
    /\ UNCHANGED <<variant, frame, tpc, tout, fp, killed, qual, rounds, par, loaderVars>>

SpecUpsert == InitUpsert /\ [][ExecuteUpsert]_vars

(***************************************************************************)
(* SpecHash: two calls of compute_execution_hash, of the lap loaders or of *)
(* the qualifying loader, with arguments of their declared types.          *)
(***************************************************************************)
SeasonArgs == {1, 11}
RoundArgs == {0, 1, 11}
VersionChars == {"1", ":"}
VersionArgs == UNION {[1..n -> VersionChars] : n \in 0..MaxVersionLen}
HashPrograms == {"laps", "qualifying"}

HashArgs == [season : SeasonArgs, round_number : RoundArgs, source_version : VersionArgs]

InitHash ==
    /\ variant = "multi"
    /\ LoaderInit
    /\ frame = <<>> /\ tpc = "idle" /\ tout = NoOutput /\ upsert = NoUpsert
    /\ killed = NoKill /\ qual = NoQual /\ rounds = NoRounds /\ par = NoPar
    /\ \E program \in HashPrograms, a, b \in HashArgs :
         fp = <<[program |-> program, args |-> a, called |-> FALSE,
                 execution_data |-> <<>>, hexdigest |-> 0],
                [program |-> program, args |-> b, called |-> FALSE,
                 execution_data |-> <<>>, hexdigest |-> 0]>>

ComputeExecutionHash(i) ==
    /\ i \in 1..Len(fp)
    /\ ~fp[i].called
    /\ fp' = [fp EXCEPT ![i] =
                [@ EXCEPT !.called = TRUE,
                          !.execution_data =
                              HashInput(fp[i].program, fp[i].args.season,
                                        fp[i].args.round_number,
                                        fp[i].args.source_version),
                          !.hexdigest =
                              compute_execution_hash(fp[i].program, fp[i].args.season,
                                                     fp[i].args.round_number,
                                                     fp[i].args.source_version)]]
    /\ UNCHANGED <<variant, frame, tpc, tout, upsert, killed, qual, rounds, par, loaderVars>>

SpecHash == InitHash /\ [][\E i \in 1..2 : ComputeExecutionHash(i)]_vars

(***************************************************************************)
(* SpecQual: ingest-qualifying.py loading the qualifying session of one    *)
(* round, in up to MaxRuns runs.  psycopg2 opens a transaction before the   *)
(* first statement after a commit or rollback; conn.commit() and           *)
(* conn.rollback() end it.                                                 *)
(***************************************************************************)
QualRound == 1
SessionRow == [season |-> Season, round |-> QualRound]
\* one record per driver of session.results
ResultRows(n) == {[season |-> Season, round |-> QualRound, driver_id |-> d] : d \in 1..n}
\* one record per timed lap of session.laps
QualLapRows(n) ==
    {[season |-> Season, round |-> QualRound, driver_id |-> 1, session_type |-> "Q1",
      lap_number |-> k] : k \in 1..n}

\* the statement psycopg2 sends next finds a transaction open
QBegin(q) == IF q.tx = "idle" THEN [q EXCEPT !.tx = "open", !.view = q.committed] ELSE q
\* conn.commit()
QCommit(q) ==
    IF q.tx = "open" THEN [q EXCEPT !.tx = "idle", !.committed = q.view]
    ELSE [q EXCEPT !.tx = "idle", !.view = q.committed]
\* conn.rollback()
QRollback(q) == [q EXCEPT !.tx = "idle", !.view = q.committed]
\* the connection breaks: the server rolls back
QLose(q) == [q EXCEPT !.conn = "lost", !.tx = "idle", !.view = q.committed]

\* how a database call can end: "ok", "error" (the statement or the commit
\* raises, the connection stays), "lost" (the connection breaks)
QEndings(q) ==
    IF q.conn = "lost" THEN {"lost"}
    ELSE {"ok"} \cup (IF q.faults < MaxFaults THEN {"error", "lost"} ELSE {})
QFault(q, ending) ==
    IF ending # "ok" /\ q.conn # "lost" THEN [q EXCEPT !.faults = @ + 1] ELSE q

\* the outer except of load_qualifying_data
QFailed(q) ==
    [q EXCEPT !.pc = "returned", !.status = "failed",
              !.results_count = 0, !.laps_count = 0]

\* insert_qualifying_session, insert_qualifying_results, insert_qualifying_laps:
\* INSERT ... ON CONFLICT DO UPDATE of the rows, conn.commit(); on an exception
\* conn.rollback() and the return of False or 0.  When conn.rollback() raises
\* too (the connection is broken) the exception reaches load_qualifying_data.
InsertAndCommit(q, table, rows, ending, next_pc) ==
    LET q1 == QFault(QBegin(q), ending)
    IN  CASE ending = "ok" ->
               [QCommit([q1 EXCEPT !.view[table] = @ \cup rows]) EXCEPT !.pc = next_pc]
          [] ending = "error" -> [QRollback(q1) EXCEPT !.pc = next_pc]
          [] OTHER -> QFailed(QLose(q1))

\* main connects and calls load_qualifying_data for the round
QStart ==
    /\ qual.pc \in {"off", "returned"} /\ qual.calls < MaxRuns
    /\ qual' = [qual EXCEPT !.pc = "fetch", !.calls = @ + 1, !.conn = "ready",
                            !.tx = "idle", !.view = qual.committed,
                            !.status = "none", !.nres = 0, !.nlaps = 0,
                            !.results_count = 0, !.laps_count = 0,
                            !.prior = IF qual.status = "success"
                                      THEN [success |-> TRUE, nres |-> qual.nres,
                                            nlaps |-> qual.nlaps]
                                      ELSE @]
    /\ UNCHANGED <<variant, frame, tpc, tout, upsert, fp, killed, rounds, par, loaderVars>>

\* fastf1.get_session / session.load raise
QFetchRaises ==
    /\ qual.pc = "fetch"
    /\ qual' = QFailed(qual)
    /\ UNCHANGED <<variant, frame, tpc, tout, upsert, fp, killed, rounds, par, loaderVars>>

\* the provider answers with a session
QFetchLoads ==
    /\ qual.pc = "fetch"
    /\ \E nres \in 0..MaxQualRows, nlaps \in 0..MaxQualRows :
         qual' = [qual EXCEPT !.pc = "check", !.nres = nres, !.nlaps = nlaps]
    /\ UNCHANGED <<variant, frame, tpc, tout, upsert, fp, killed, rounds, par, loaderVars>>

\* check_qualifying_already_loaded: COUNT(*) of qualifying_results > 0
check_qualifying_already_loaded(tables) == Cardinality(tables.results) > 0

QCheck ==
    /\ qual.pc = "check"
    /\ \E ending \in QEndings(qual) :
         LET q1 == QFault(QBegin(qual), ending)
         IN  qual' =
               CASE ending = "error" -> QFailed([q1 EXCEPT !.tx = "aborted"])
                 [] ending = "lost" -> QFailed(QLose(q1))
                 [] OTHER ->
                      IF check_qualifying_already_loaded(q1.view)
                      THEN [q1 EXCEPT !.pc = "returned", !.status = "skipped"]
                      ELSE [q1 EXCEPT !.pc = "session"]
    /\ UNCHANGED <<variant, frame, tpc, tout, upsert, fp, killed, rounds, par, loaderVars>>

\* insert_qualifying_session (its return value is not read)
QInsertSession ==
    /\ qual.pc = "session"
    /\ \E ending \in QEndings(qual) :
         qual' = InsertAndCommit(qual, "sessions", {SessionRow}, ending, "results")
    /\ UNCHANGED <<variant, frame, tpc, tout, upsert, fp, killed, rounds, par, loaderVars>>

\* extract_qualifying_results and insert_qualifying_results
QInsertResults ==
    /\ qual.pc = "results"
    /\ IF qual.nres = 0
       THEN qual' = [qual EXCEPT !.pc = "laps"]
       ELSE \E ending \in QEndings(qual) :
              LET q1 == InsertAndCommit(qual, "results", ResultRows(qual.nres),
                                        ending, "laps")
              IN  qual' = IF ending = "ok"
                          THEN [q1 EXCEPT !.results_count = qual.nres]
                          ELSE q1
    /\ UNCHANGED <<variant, frame, tpc, tout, upsert, fp, killed, rounds, par, loaderVars>>

\* extract_qualifying_laps and insert_qualifying_laps, and the return of
\* 'success'
QInsertLaps ==
    /\ qual.pc = "laps"
    /\ IF qual.nlaps = 0
       THEN qual' = [qual EXCEPT !.pc = "returned", !.status = "success"]
       ELSE \E ending \in QEndings(qual) :
              LET q1 == InsertAndCommit(qual, "laps", QualLapRows(qual.nlaps),
                                        ending, "returned")
              IN  qual' = IF ending = "lost" THEN q1
                          ELSE [q1 EXCEPT !.status = "success",
                                          !.laps_count =
                                              IF ending = "ok" THEN qual.nlaps ELSE 0]
    /\ UNCHANGED <<variant, frame, tpc, tout, upsert, fp, killed, rounds, par, loaderVars>>

InitQual ==
    /\ variant = "multi"
    /\ LoaderInit
    /\ frame = <<>> /\ tpc = "idle" /\ tout = NoOutput
    /\ upsert = NoUpsert /\ fp = NoFingerprints /\ killed = NoKill
    /\ qual = NoQual /\ rounds = NoRounds /\ par = NoPar

NextQual ==
    \/ QStart \/ QFetchRaises \/ QFetchLoads \/ QCheck
    \/ QInsertSession \/ QInsertResults \/ QInsertLaps

SpecQual == InitQual /\ [][NextQual]_vars

(***************************************************************************)
(* Claims about the record pipeline                                        *)
(***************************************************************************)
Records == tout.records
\* the provider lap a record was made from
Source == tout.source
RecIdx == 1..Len(tout.records)

\* the record of the same driver with the greatest smaller lap number (0: none)
PrevOf(k) ==
    LET earlier == {j \in RecIdx : /\ Source[j].DriverNumber = Source[k].DriverNumber
                                   /\ Records[j].lap_number < Records[k].lap_number}
    IN  IF earlier = {} THEN 0
        ELSE CHOOSE j \in earlier :
               \A i \in earlier : Records[i].lap_number <= Records[j].lap_number

\* cumulative elapsed race time of record k: the durations of the driver's
\* surviving laps up to this lap
ElapsedOf(k) ==
    SumOver({j \in RecIdx : /\ Source[j].DriverNumber = Source[k].DriverNumber
                            /\ Records[j].lap_number <= Records[k].lap_number},
            [j \in RecIdx |-> Source[j].LapTime])

HasExclusion(row) ==
    \/ row.PitInTime \/ row.PitOutTime
    \/ row.TrackStatus \cap {4, 6, 7} # {}
    \/ ~row.IsAccurate

\* C5: every record with is_pit_lap = true has clean_air_flag = false, in both
\* loaders, whatever the gaps are.
C5_CleanAirExclusivity ==
    tpc = "done" =>
        \A k \in RecIdx : Records[k].is_pit_lap => ~Records[k].clean_air_flag

\* C6: a record is flagged clean only if its lap passes every check: no lap
\* under safety car, virtual safety car or VSC ending (codes 4, 6, 7) and no lap
\* the provider marks inaccurate is clean, and a clean lap that is not first on
\* the road has a gap of at least the threshold to the car ahead.
C6_FailClosedCleanAir ==
    tpc = "done" =>
        \A k \in RecIdx :
            Records[k].clean_air_flag =>
                /\ Source[k].TrackStatus \cap {4, 6, 7} = {}
                /\ Source[k].IsAccurate
                /\ \A j \in RecIdx :
                       (/\ Records[j].lap_number = Records[k].lap_number
                        /\ ElapsedOf(j) < ElapsedOf(k))
                       => \E a \in RecIdx :
                             /\ Records[a].lap_number = Records[k].lap_number
                             /\ ElapsedOf(a) < ElapsedOf(k)
                             /\ \A b \in RecIdx :
                                  (/\ Records[b].lap_number = Records[k].lap_number
                                   /\ ElapsedOf(b) < ElapsedOf(k))
                                  => ElapsedOf(b) <= ElapsedOf(a)
                             /\ ElapsedOf(k) - ElapsedOf(a) >= Threshold(variant)

\* C7: per driver, in ascending lap order, stint_id never decreases, and
\* stint_lap_index is 1 exactly on the driver's first lap and on a lap whose
\* stint_id is greater than that of the lap before.
C7_StintMonotone ==
    tpc = "done" =>
        \A k \in RecIdx :
            IF PrevOf(k) = 0 THEN Records[k].stint_lap_index = 1
            ELSE /\ Records[PrevOf(k)].stint_id <= Records[k].stint_id
                 /\ (Records[k].stint_lap_index = 1
                        <=> Records[k].stint_id > Records[PrevOf(k)].stint_id)

\* a driver's third lap continues the stint that the second lap opened
C7_Witness ==
    /\ tpc = "done"
    /\ \E k \in RecIdx :
         /\ PrevOf(k) # 0 /\ PrevOf(PrevOf(k)) # 0
         /\ Records[k].stint_id = 2 /\ Records[k].stint_lap_index = 2
         /\ Records[PrevOf(k)].stint_id = 2 /\ Records[PrevOf(k)].stint_lap_index = 1
         /\ Records[PrevOf(PrevOf(k))].stint_id = 1

\* C8: at every lap number, the record of the driver with the lowest cumulative
\* elapsed time is clean air when no exclusion (pit marker, safety car / VSC
\* status, inaccurate lap) applies to it.
C8_LeaderCleanAir ==
    tpc = "done" =>
        \A k \in RecIdx :
            (/\ ~HasExclusion(Source[k])
             /\ \A j \in RecIdx \ {k} :
                    Records[j].lap_number = Records[k].lap_number
                    => ElapsedOf(k) < ElapsedOf(j))
            => Records[k].clean_air_flag

\* the rows of the frame that lack a lap duration or a driver key
Lacking == {i \in 1..Len(frame) : frame[i].LapTime = NoTime \/ frame[i].DriverNumber = NoDriver}

\* C9: transform_lap_data drops exactly the laps without duration or driver key,
\* before the detectors run: it returns one record per other lap, their number is
\* the input count minus the number of dropped laps, which is the count it
\* reports, and the records are those of the frame without the dropped laps.
C9_FailClosedFiltering ==
    tpc = "done" =>
        /\ Len(Records) = Len(frame) - Cardinality(Lacking)
        /\ tout.skipped_before = Cardinality(Lacking)
        /\ tout.skipped_count = 0
        /\ {Source[k] : k \in RecIdx} = {frame[i] : i \in (1..Len(frame)) \ Lacking}
        /\ \E rev \in BOOLEAN :
             Records = transform_lap_data(
                           variant,
                           SelectSeq(frame, LAMBDA row : /\ row.LapTime # NoTime
                                                         /\ row.DriverNumber # NoDriver),
                           ModelSession, Season, 1,
                           TrackId(variant, ModelSession.EventName),
                           IdentityTable, rev).records

\* three laps, one of them without duration: two records, one lap reported
C9_Witness ==
    /\ tpc = "done"
    /\ Len(frame) = 3
    /\ Cardinality(Lacking) = 1
    /\ \E i \in Lacking : frame[i].LapTime = NoTime /\ frame[i].DriverNumber # NoDriver
    /\ Len(Records) = 2
    /\ tout.skipped_before = 1

(***************************************************************************)
(* Claims about the loader                                                 *)
(***************************************************************************)
Returned == last.status # "none"

\* C1: when an earlier run's call for a race returned 'success', a later call for
\* that race to which the provider answers and whose statements run returns
\* 'skipped', sends no INSERT and leaves every committed row as it was.
C1_IdempotentRerun ==
    (Returned /\ last.prior_success /\ last.fetch_ok /\ ~last.db_raised) =>
        /\ last.status = "skipped"
        /\ last.page = 0
        /\ last.after = last.before
        /\ RowsOf(last.after, last.round) # {}

\* the second run skips a race the first run loaded, with usable laps on offer
C1_Witness ==
    /\ Returned /\ last.prior_success /\ last.status = "skipped"
    /\ last.run = 2 /\ last.frame = GoodFrame
    /\ Cardinality(RowsOf(last.after, last.round)) = Len(GoodFrame)

\* C2: when execute_values raises, at whichever page, load_race_data ends the
\* transaction, returns 'failed', and the committed table is what it was when the
\* call began: no row of this race, every row of the other races.
C2_RollbackOnInsertFailure ==
    [][(call.insert_raised /\ lpc' = "none") =>
            /\ last'.status = "failed"
            /\ db'.tx = "idle" /\ db'.view = db'.committed
            /\ RowsOf(db'.committed, call.round) = {}
            /\ db'.committed = call.before]_vars

\* the last page of a race raised while another race was committed before
C2_Witness ==
    /\ Returned /\ last.insert_raised /\ last.status = "failed"
    /\ last.page = PageCount(last.frame) /\ last.page > 1
    /\ last.before # {}
    /\ last.after = last.before

C4_FailureIsolation ==
    (/\ Returned /\ last.follows_failed /\ last.alive_start
     /\ last.fetch_ok /\ last.frame = GoodFrame
     /\ RowsOf(last.before, last.round) = {}
     /\ ~last.own_fault)
    => last.status = "success"

\* C10: a race whose rows are present when its call begins is not reported
\* 'failed', here even with no database error during the call.
C10_LoadedNeverFailed ==
    (Returned /\ RowsOf(last.before, last.round) # {} /\ ~last.db_raised)
    => last.status # "failed"

(***************************************************************************)
(* Claims about the audit row and the end of a run                         *)
(***************************************************************************)

C12_RunStatus ==
    (mpc = "exit" /\ seen.audit = "written") =>
        etl_runs.newest[1].status =
            (IF "failed" \in seen.statuses THEN "partial_failure" ELSE "success")

\* a run whose races were all skipped is recorded as 'success'
C12_Witness ==
    /\ mpc = "exit" /\ seen.audit = "written"
    /\ seen.statuses = {"skipped"}
    /\ etl_runs.newest[1].status = "success"
    /\ etl_runs.newest[1].races_skipped = 2

\* C13: a run that got past schema validation exits with a non-zero code when
\* one of its races returned 'failed' and with 0 otherwise, however many races
\* it skipped.
C13_ExitCode ==
    [][(mpc = "exit" /\ mpc' = "off") =>
            /\ ("failed" \in seen.statuses) => exit_code' # 0
            /\ ("failed" \notin seen.statuses) => exit_code' = 0]_vars

\* the second run has ended: it skipped both races and left with code 0
C13_Witness ==
    /\ mpc = "off" /\ run_no = 2 /\ exit_code = 0
    /\ etl_runs.count = 2
    /\ etl_runs.newest[1].races_skipped = 2
    /\ etl_runs.newest[1].races_failed = 0

\* C14: when validate_database_schema finds the table or a required column
\* missing, the run ends there with a non-zero exit code: no race is handed to
\* load_race_data, no row of laps_normalized changes and no audit row is
\* written; a race is only ever processed under a schema that passed.
C14_SchemaMismatchFatal ==
    [][/\ (mpc = "validate" /\ RequiredColumns \ db.columns # {}) =>
            /\ mpc' = "off" /\ exit_code' # 0
            /\ lpc' = "none" /\ call' = NoCall /\ todo' = todo
            /\ db'.committed = db.committed
            /\ etl_runs' = etl_runs
       /\ lpc' # "none" => RequiredColumns \subseteq db'.columns]_vars

\* the second run found clean_air_flag missing and left with code 1, the rows
\* and the audit row of the first run being all there is
C14_Witness ==
    /\ mpc = "off" /\ run_no = 2 /\ exit_code = 1
    /\ db.columns = RequiredColumns \ {"clean_air_flag"}
    /\ db.committed # {}
    /\ etl_runs.count = 1 /\ etl_runs.newest[1].races_failed = 0

\* C15: whatever load_driver_identity_map returned, and also when its query
\* raised, the first race of a run that finds the connection alive, usable laps
\* at the provider, no rows of its own and no fault in its own statements is
\* loaded ('success', one row per usable lap, each with a driver id).
C15_IdentityNeverBlocks ==
    (/\ Returned /\ last.run = run_no
     /\ metrics.races_processed + metrics.races_skipped + metrics.races_failed = 1
     /\ last.alive_start /\ last.fetch_ok /\ last.frame = GoodFrame
     /\ RowsOf(last.before, last.round) = {}
     /\ ~last.own_fault)
    => /\ last.status = "success"
       /\ Cardinality(RowsOf(last.after, last.round)) = Len(GoodFrame)
       /\ \A row \in RowsOf(last.after, last.round) : row.driver_id # <<>>

(***************************************************************************)
(* Claims about the upsert, the fingerprint, the audit write and a kill    *)
(***************************************************************************)
UpdatedColumns ==
    {"session_type", "stint_id", "stint_lap_index", "is_pit_lap", "is_out_lap", "is_in_lap"}
KeptColumns ==
    {"season", "round", "track_id", "driver_id", "lap_number", "lap_time_seconds",
     "is_valid_lap", "clean_air_flag", "compound", "tyre_age_laps"}

\* C16: after a statement that ran, every key of the stored table and of the
\* VALUES list has exactly one row; a row whose key the statement did not
\* propose is as it was; a row whose key was stored and proposed carries the
\* proposed session type, stint id, stint-local index and pit/out/in flags and
\* the stored value of every other column (duration, compound, validity,
\* clean-air flag, tyre age); a row whose key was new is the proposed row.  A
\* statement that raised leaves the table as it was.
C16_UpsertConflictPolicy ==
    /\ upsert.pc = "raised" => upsert.result = upsert.stored
    /\ upsert.pc = "done" =>
        LET proposed == {upsert.values[i] : i \in 1..Len(upsert.values)}
        IN  /\ \A a, b \in upsert.result : ConflictKey(a) = ConflictKey(b) => a = b
            /\ {ConflictKey(r) : r \in upsert.result}
                 = {ConflictKey(r) : r \in upsert.stored \cup proposed}
            /\ \A r \in upsert.result :
                 /\ \A e \in upsert.stored : ConflictKey(e) = ConflictKey(r) =>
                      /\ \A col \in KeptColumns : r[col] = e[col]
                      /\ (\A p \in proposed : ConflictKey(p) # ConflictKey(r)) => r = e
                 /\ \A p \in proposed : ConflictKey(p) = ConflictKey(r) =>
                      /\ \A col \in UpdatedColumns : r[col] = p[col]
                      /\ (\A e \in upsert.stored : ConflictKey(e) # ConflictKey(r)) => r = p

\* the statement met a stored row of lap 1 that differs from the proposed one
\* in the stint id and in the duration, and added lap 2
C16_Witness ==
    /\ upsert.pc = "done"
    /\ Len(upsert.values) = 2
    /\ \E e \in upsert.stored :
         /\ e.lap_number = 1
         /\ upsert.values[1].lap_number = 1
         /\ upsert.values[1].stint_id # e.stint_id
         /\ upsert.values[1].lap_time_seconds # e.lap_time_seconds
         /\ upsert.values[1].compound # e.compound
    /\ upsert.values[2].lap_number = 2
    /\ \A e \in upsert.stored : e.lap_number = 1
    /\ Cardinality(upsert.result) = 2

\* C17: two calls of compute_execution_hash of one program with the same
\* (season, round, source version) hash the same string and return the same
\* digest; two calls that differ in an argument hash different strings.
C17_FingerprintInjective ==
    (Len(fp) = 2 /\ fp[1].called /\ fp[2].called) =>
        /\ fp[1].args = fp[2].args =>
             /\ fp[1].execution_data = fp[2].execution_data
             /\ fp[1].hexdigest = fp[2].hexdigest
        /\ fp[1].args # fp[2].args => fp[1].execution_data # fp[2].execution_data

\* season 1 of round 11 against season 11 of round 1, the version holding a
\* separator: the strings differ only by where the first separator stands
C17_Witness ==
    /\ Len(fp) = 2 /\ fp[1].called /\ fp[2].called
    /\ fp[1].args.season = 1 /\ fp[1].args.round_number = 11
    /\ fp[2].args.season = 11 /\ fp[2].args.round_number = 1
    /\ fp[1].args.source_version = <<":", "1">>
    /\ fp[2].args.source_version = <<":", "1">>
    /\ fp[1].execution_data # fp[2].execution_data
    /\ Len(fp[1].execution_data) = Len(fp[2].execution_data)

\* C18: when a statement of write_audit_log raised, main goes on to close the
\* connection and exit; neither step changes a committed row or a counter,
\* every round that returned 'success' still has a batch transform_lap_data
\* produced for it among the committed rows, and the exit code is 1 exactly
\* when some call of the run returned 'failed'.
C18_AuditBestEffort ==
    [][/\ (mpc = "loop" /\ mpc' = "exit" /\ seen'.audit = "raised") =>
            /\ db'.committed = db.committed
            /\ metrics' = metrics
            /\ etl_runs' = etl_runs
            /\ \A r \in succeeded : RowsOf(db'.committed, r) \in produced[r]
       /\ (mpc = "exit" /\ mpc' = "off" /\ seen.audit = "raised") =>
            /\ db'.committed = db.committed
            /\ \A r \in succeeded : RowsOf(db'.committed, r) \in produced[r]
            /\ exit_code' = (IF "failed" \in seen.statuses THEN 1 ELSE 0)]_vars

\* the first run passed validation, committed a race and left with code 0, and
\* the audit table has no row: its audit write raised
C18_Witness ==
    /\ mpc = "off" /\ run_no = 1 /\ exit_code = 0
    /\ db.columns # {}
    /\ succeeded # {}
    /\ \A r \in succeeded : RowsOf(db.committed, r) \in produced[r]
    /\ etl_runs.count = 0

\* the step is the kill of a run
KillStep == killed.run = 0 /\ killed'.run # 0
\* the step belongs to the run that follows the killed one, started with the
\* same arguments, and no fault has been injected since the kill
InRestart ==
    /\ killed' = killed /\ killed.run # 0 /\ run_no = killed.run + 1
    /\ args = killed.args /\ faults' = killed.faults
RoundsOfRun == IF args.round # 0 THEN {args.round} ELSE Rounds

\* what a kill leaves of the races: the committed rows are those there were,
\* every round has no rows or a whole batch, the round whose transaction was
\* under way has none
KillKeepsRaces ==
    KillStep =>
        /\ db'.committed = db.committed
        /\ db'.tx = "idle" /\ db'.view = db'.committed
        /\ \A r \in Rounds :
             \/ RowsOf(db'.committed, r) = {}
             \/ RowsOf(db'.committed, r) \in produced[r]
        /\ lpc \in {"begin", "insert", "commit"} =>
             RowsOf(db'.committed, call.round) = {}

\* what the restarted run does: a call whose fetch succeeded returns 'skipped'
\* exactly for a round the killed run left with rows; a call for a round
\* without rows that gets the usable frame returns 'success' and leaves the
\* whole batch; and when no call failed and each round's input transformed to
\* one batch whenever it was transformed, the run ends with that batch in
\* every round, as a run that was never interrupted does
RestartCompletes ==
    /\ (InRestart /\ lpc # "none" /\ lpc' = "none" /\ call.fetch_ok) =>
         /\ last'.status = "skipped" <=> RowsOf(killed.committed, call.round) # {}
         /\ (RowsOf(killed.committed, call.round) = {} /\ call.frame = GoodFrame) =>
              /\ last'.status = "success"
              /\ RowsOf(db'.committed, call.round) \in produced'[call.round]
         /\ \A q \in Rounds \ {call.round} :
              RowsOf(db'.committed, q) = RowsOf(db.committed, q)
    /\ (/\ InRestart /\ mpc = "exit" /\ mpc' = "off"
        /\ "failed" \notin seen.statuses
        /\ \A r \in RoundsOfRun : Cardinality(produced[r]) = 1) =>
         \A r \in RoundsOfRun : RowsOf(db'.committed, r) \in produced[r]

C20_QualifyingAtomic ==
    qual.pc = "returned" =>
        LET has == [t \in {"sessions", "results", "laps"} |-> qual.committed[t] # {}]
        IN  (has["sessions"] \/ has["results"] \/ has["laps"]) =>
                /\ has["sessions"]
                /\ qual.nres > 0 => has["results"]
                /\ qual.nlaps > 0 => has["laps"]

(***************************************************************************)
(* Claims about the steps of load_race_data and the counters of main       *)
(***************************************************************************)
\* load_race_data returns to main in this step
Returns == lpc # "none" /\ lpc' = "none"

\* C25: within a call of load_race_data the rows of laps_normalized change only
\* after the already-loaded check (in the insert and commit steps); BEGIN is
\* reached only from a check that found no row of (season, round) and a
\* transform that produced a record, and the upsert only from BEGIN; 'success'
\* is returned only by the step in which COMMIT was executed; every call
\* returns one of 'success', 'skipped', 'failed'.
C25_StepOrder ==
    [][/\ (lpc # "none" /\ RowsOf(db'.view, call.round) # RowsOf(db.view, call.round))
            => lpc \in {"insert", "commit", "rollback"}
       /\ (lpc # "none" /\ db'.committed # db.committed) => lpc = "commit"
       /\ (lpc' = "begin") =>
              /\ lpc = "check"
              /\ RowsOf(db'.view, call.round) = {}
              /\ call'.transformed # <<>>
       /\ (lpc' = "insert") => lpc \in {"begin", "insert"}
       /\ (lpc' = "commit") => lpc = "insert"
       /\ (Returns /\ last'.status = "success") =>
              /\ lpc = "commit"
              /\ db'.tx = "idle"
              /\ RowsOf(db'.committed, call.round) = Range(call.transformed)
              /\ last'.laps_inserted = Len(call.transformed)
       /\ Returns => last'.status \in {"success", "skipped", "failed"}]_vars

\* in its second run the loader has skipped round 1, whose rows it found, and
\* has returned 'success' for round 2 after the commit of its rows
C25_Witness ==
    /\ lpc = "none" /\ run_no = 2 /\ last.run = 2 /\ last.round = 2
    /\ last.status = "success" /\ seen.statuses = {"skipped", "success"}
    /\ RowsOf(db.committed, 2) # {} /\ RowsOf(last.before, 2) = {}
    /\ RowsOf(last.before, 1) # {}

\* the provider's lap collection of the call is empty, or no lap of it
\* survives transform_lap_data
NoUsableData ==
    /\ call.fetch_ok
    /\ \/ call.frame = <<>>
       \/ \A rev \in BOOLEAN :
             transform_lap_data(variant, call.frame, ModelSession, args.season,
                                call.round, TrackId(variant, ModelSession.EventName),
                                identity_map, rev).records = <<>>

\* a call without usable data returns straight from the check, with no BEGIN
\* and no INSERT executed, leaves laps_normalized as it was, inserts no lap,
\* and leaves main in its loop with the rounds still to do
ReturnsWithoutWriting ==
    /\ lpc = "check"
    /\ db'.committed = db.committed
    /\ RowsOf(db'.view, call.round) = RowsOf(db.view, call.round)
    /\ last'.laps_inserted = 0 /\ last'.after = call.before
    /\ metrics'.total_laps_inserted = metrics.total_laps_inserted
    /\ mpc' = "loop" /\ todo' = todo /\ exit_code' = exit_code

\* C26 as stated: a call whose provider lap collection is empty, or of which no
\* lap survives the transform, returns 'failed' without BEGIN and without a
\* write, and the run goes on.
C26_NoUsableDataFails ==
    [][(Returns /\ NoUsableData) =>
           /\ ReturnsWithoutWriting
           /\ last'.status = "failed"]_vars

\* C26 amended: such a call returns 'skipped' when the race has rows already
\* (the already-loaded check comes first) and 'failed' otherwise, in both cases
\* without BEGIN and without a write, and the run goes on.
C26_NoUsableData ==
    [][(Returns /\ NoUsableData) =>
           /\ ReturnsWithoutWriting
           /\ last'.status =
                 IF ~last'.db_raised /\ RowsOf(db'.view, call.round) # {}
                 THEN "skipped" ELSE "failed"]_vars

\* round 1 had a lap collection without a usable lap and no rows: the call has
\* returned 'failed', the table is as before, round 2 is still to do
C26_Witness ==
    /\ lpc = "none" /\ mpc = "loop" /\ todo = <<2>>
    /\ last.run = run_no /\ last.round = 1 /\ last.status = "failed"
    /\ last.fetch_ok /\ ~last.db_raised /\ last.frame = DeadFrame
    /\ last.after = last.before /\ RowsOf(last.before, 1) = {}
    /\ metrics.races_failed = 1

\* the rounds main enumerates for the run: the one of --round, or all
RoundsEnumerated == IF args.round # 0 THEN 1 ELSE MaxRounds

\* write_audit_log inserts and commits the audit row in this step
AuditWritten == mpc = "loop" /\ mpc' = "exit" /\ seen'.audit = "written"

SameLap(k) == {j \in RecIdx \ {k} : Records[j].lap_number = Records[k].lap_number}
\* those ranked before record k whatever the sort does with equal times, and
\* those with the cumulative time of record k
AheadOf(k) == {j \in SameLap(k) : ElapsedOf(j) < ElapsedOf(k)}
TiedWith(k) == {j \in SameLap(k) : ElapsedOf(j) = ElapsedOf(k)}
\* cumulative time of record k minus that of the record ranked just before it
GapAhead(k) ==
    LET a == CHOOSE j \in AheadOf(k) : \A b \in AheadOf(k) : ElapsedOf(b) <= ElapsedOf(j)
    IN  ElapsedOf(k) - ElapsedOf(a)

Indeterminate(k) ==
    \E i \in 1..Len(frame) :
        /\ frame[i].DriverNumber = Source[k].DriverNumber
        /\ frame[i].LapNumber < Records[k].lap_number
        /\ frame[i].LapTime = NoTime

\* C29: a lap of a driver with an earlier lap whose duration is missing is not
\* ranked and has clean_air_flag = false.
C29_IndeterminateIsDirty ==
    tpc = "done" =>
        \A k \in RecIdx : Indeterminate(k) => ~Records[k].clean_air_flag

\* gap-to-leader is present for at least half of the laps at the lap number of
\* record k
HalfHaveGap(k) ==
    LET at == {j \in RecIdx : Records[j].lap_number = Records[k].lap_number}
    IN  2 * Cardinality({j \in at : Source[j].GapToLeader # NoGap}) >= Cardinality(at)

\* C30: in the multi-season loader the flag of every lap is the one the
\* direct-gap procedure gives when gap-to-leader is present for at least half
\* of the laps at its lap number (exactly half included), and the one the
\* reconstructed procedure gives otherwise.
C30_ModeSelection ==
    (tpc = "done" /\ variant = "multi") =>
        \A k \in RecIdx :
            \E rev \in BOOLEAN :
                Records[k].clean_air_flag =
                    IF HalfHaveGap(k) THEN CleanFromGap(Source, ThresholdMulti, rev)[k]
                    ELSE CleanFromCumulative(Source, ThresholdMulti, rev)[k]

\* the call in progress (or just returned) got from the provider the session
\* an earlier call returned 'success' for
SameSessionAgain ==
    /\ qual.prior.success
    /\ qual.pc \in {"check", "session", "results", "laps", "returned"}
    /\ ~(qual.pc = "returned" /\ qual.status = "failed")
    /\ qual.nres = qual.prior.nres /\ qual.nlaps = qual.prior.nlaps

\* C21: a call of load_qualifying_data that gets the session an earlier call
\* returned 'success' for never reaches an insert, and unless it fails it
\* returns 'skipped'.
C21_QualifyingIdempotent ==
    SameSessionAgain =>
        /\ qual.pc \in {"check", "returned"}
        /\ qual.pc = "returned" => qual.status = "skipped"

(***************************************************************************)
(* Claims about stint boundaries and the compound                          *)
(***************************************************************************)
\* the pit event of the segmentation rule at record k, PrevOf(k) being the
\* driver's lap before: a pit-out marker on the lap or a pit-in marker on the
\* lap before
PitEvent(k) == Source[k].PitOutTime \/ Source[PrevOf(k)].PitInTime

\* record k follows the boundary rule: with a boundary the stint id is one more
\* than on the lap before and the index is 1, without one the stint id is the
\* same and the index one more
FollowsBoundary(k, boundary) ==
    IF boundary
    THEN /\ Records[k].stint_id = Records[PrevOf(k)].stint_id + 1
         /\ Records[k].stint_lap_index = 1
    ELSE /\ Records[k].stint_id = Records[PrevOf(k)].stint_id
         /\ Records[k].stint_lap_index = Records[PrevOf(k)].stint_lap_index + 1

\* C22: in the multi-season loader every lap after a driver's first opens a
\* stint (stint id + 1, index 1) exactly when its compound differs from that of
\* the lap before, or it carries a pit-out marker, or the lap before carried a
\* pit-in marker; otherwise it continues the stint (index + 1).
C22_StintBoundaryMulti ==
    (tpc = "done" /\ variant = "multi") =>
        \A k \in RecIdx :
            PrevOf(k) # 0 =>
                FollowsBoundary(k, \/ Records[k].compound # Records[PrevOf(k)].compound
                                   \/ PitEvent(k))

\* C23: in the 2025 loader every lap after a driver's first opens a stint
\* exactly when its compound differs from that of the lap before or a pit
\* event (pit-out marker on it, pit-in marker on the lap before) is present;
\* so an in-lap followed by an out-lap on a new compound raises the stint id
\* by one, on the out-lap.
C23_StintBoundary2025 ==
    (tpc = "done" /\ variant = "y2025") =>
        \A k \in RecIdx :
            PrevOf(k) # 0 =>
                /\ FollowsBoundary(k, \/ Records[k].compound # Records[PrevOf(k)].compound
                                      \/ PitEvent(k))
                /\ (/\ PrevOf(PrevOf(k)) # 0
                    /\ Source[PrevOf(k)].PitInTime /\ ~Source[PrevOf(k)].PitOutTime
                    /\ Source[k].PitOutTime
                    /\ Records[PrevOf(k)].compound = Records[PrevOf(PrevOf(k))].compound
                    /\ Records[k].compound # Records[PrevOf(k)].compound)
                   => /\ Records[PrevOf(k)].stint_id = Records[PrevOf(PrevOf(k))].stint_id
                      /\ Records[k].stint_id = Records[PrevOf(k)].stint_id + 1

\* C24: every lap that reached the stint detector (each becomes one record)
\* has a compound: neither None nor NaN.
C24_NoNullCompound ==
    tpc = "done" =>
        \A k \in RecIdx : Source[k].Compound \notin {NoneCompound, NanCompound}

(***************************************************************************)
(* Claims about the direct-gap mode and the flags of a record              *)
(***************************************************************************)
\* the other records at the lap number of record k with a smaller reported
\* gap-to-leader
SmallerGap(k) ==
    {j \in SameLap(k) : Source[j].GapToLeader < Source[k].GapToLeader}

\* C31: in the multi-season loader, when every lap carries a gap-to-leader
\* (direct-gap mode) and the gaps at a lap number differ, the lap with the
\* smallest gap is clean and every other lap with no exclusion is clean
\* exactly when its gap minus the next smaller gap at its lap number is at
\* least the threshold, whatever Position the provider reports.
C31_DirectGapOrdering ==
    (/\ tpc = "done" /\ variant = "multi"
     /\ \A k \in RecIdx : Source[k].GapToLeader # NoGap) =>
        \A k \in RecIdx :
            (/\ ~HasExclusion(Source[k])
             /\ \A j \in SameLap(k) : Source[j].GapToLeader # Source[k].GapToLeader)
            => IF SmallerGap(k) = {} THEN Records[k].clean_air_flag
               ELSE LET a == CHOOSE j \in SmallerGap(k) :
                                \A b \in SmallerGap(k) :
                                    Source[b].GapToLeader <= Source[j].GapToLeader
                    IN  Records[k].clean_air_flag
                          <=> Source[k].GapToLeader - Source[a].GapToLeader
                                >= Threshold(variant)

\* C32: in every record is_in_lap is true exactly when the lap has a pit-in
\* marker, is_out_lap exactly when it has a pit-out marker, and is_pit_lap is
\* their disjunction, whatever the duration of the lap.
C32_PitFlagsFromMarkers ==
    tpc = "done" =>
        \A k \in RecIdx :
            /\ Records[k].is_in_lap = Source[k].PitInTime
            /\ Records[k].is_out_lap = Source[k].PitOutTime
            /\ Records[k].is_pit_lap = (Records[k].is_in_lap \/ Records[k].is_out_lap)

\* the slowest lap of the frame carries no marker and no pit flag, a faster
\* lap is an in-lap
C32_Witness ==
    /\ tpc = "done"
    /\ \E k, j \in RecIdx :
         /\ Source[k].LapTime > Source[j].LapTime
         /\ \A i \in RecIdx : Source[i].LapTime <= Source[k].LapTime
         /\ ~Records[k].is_pit_lap /\ ~Records[k].is_in_lap /\ ~Records[k].is_out_lap
         /\ Records[j].is_pit_lap /\ Records[j].is_in_lap /\ ~Records[j].is_out_lap

(***************************************************************************)
(* Claims about what the stint fields depend on                            *)
(***************************************************************************)
\* lap number, stint_id and stint_lap_index the stint detector of the loader
\* gives to the laps of driver d when transform_lap_data hands it the
\* surviving laps of the frame f
StintsOf(f, d) ==
    LET filtered == SelectSeq(f, HasCriticalData)
        st == IF variant = "multi" THEN detect_stints_and_pit_laps(filtered)
              ELSE detect_stints(filtered)
    IN  {<<st.df[i].LapNumber, st.ann[i].stint_id, st.ann[i].stint_lap_index>> :
            i \in {j \in 1..Len(st.df) : st.df[j].DriverNumber = d}}

\* the same of the records the loader returned
StintsReturned(d) ==
    {<<Records[k].lap_number, Records[k].stint_id, Records[k].stint_lap_index>> :
        k \in {i \in RecIdx : Source[i].DriverNumber = d}}

Reverse(f) == [i \in 1..Len(f) |-> f[Len(f) + 1 - i]]

\* C33: the stint fields of a driver's records are those the loader gives to
\* the driver's laps alone (all laps of other drivers removed) and those it
\* gives when the rows of the frame come in the opposite order.
C33_StintOwnLapsOnly ==
    tpc = "done" =>
        \A d \in Drivers :
            /\ StintsReturned(d) = StintsOf(SelectSeq(frame, LAMBDA r : r.DriverNumber = d), d)
            /\ StintsReturned(d) = StintsOf(Reverse(frame), d)

\* a lap of driver 2 on another compound came between two laps of driver 1 in
\* the frame: driver 1 is in stint 1 on both laps, driver 2 in stint 1
C33_Witness ==
    /\ tpc = "done" /\ Len(frame) = 3
    /\ frame[1].DriverNumber = 1 /\ frame[2].DriverNumber = 2 /\ frame[3].DriverNumber = 1
    /\ frame[2].Compound # frame[1].Compound /\ frame[3].Compound = frame[1].Compound
    /\ ~frame[3].PitOutTime /\ ~frame[1].PitInTime /\ ~frame[3].PitInTime
    /\ StintsReturned(1) = {<<1, 1, 1>>, <<2, 1, 2>>}
    /\ StintsReturned(2) = {<<1, 1, 1>>}

(***************************************************************************)
(* Claims about the fingerprint string and the rounds of a run             *)
(***************************************************************************)
\* season:round:source-version as decimal numbers and the version string
SeasonRoundVersion(a) ==
    IntStr(a.season) \o <<":">> \o IntStr(a.round_number) \o <<":">> \o a.source_version

\* C34: the string compute_execution_hash hashes is a subject kind (a name of
\* the pipeline, not empty), a colon, and season:round:source-version.
C34_FingerprintFormat ==
    \A i \in 1..Len(fp) :
        fp[i].called =>
            LET data == fp[i].execution_data
                rest == SeasonRoundVersion(fp[i].args)
                n == Len(data) - Len(rest)
            IN  /\ n >= 2
                /\ SubSeq(data, n + 1, Len(data)) = rest
                /\ data[n] = ":"
                /\ \A p \in 1..(n - 1) : data[p] # ":"

\* C35: when main has gone through its loop for a season of the race-count
\* table, the rounds it handed to load_race_data are, with no --round, the
\* rounds 1..N in ascending order, each once, N being the season's entry in
\* the table, and with --round r the round r alone.
C35_RoundEnumeration ==
    (rounds.pc = "done" /\ rounds.season \in DOMAIN SEASON_RACE_COUNTS) =>
        rounds.processed =
            IF rounds.round # NoRound THEN <<rounds.round>>
            ELSE [i \in 1..SEASON_RACE_COUNTS[rounds.season] |-> i]

(***************************************************************************)
(* Claims about races loaded side by side and about committed rows         *)
(***************************************************************************)
PairDone == par.phase = "any" /\ \A r \in RacePair : par.ses[r].pc = "done"

\* C36: two distinct races loaded by two calls, each in a transaction of its
\* own, with their statements in any order, end with the statuses and with
\* the laps_normalized rows they end with when one call follows the other.
C36_AnyInterleaving ==
    PairDone =>
        /\ \A r \in RacePair : par.ses[r].status = par.serial.status[r]
        /\ par.committed = par.serial.committed

\* both races were loaded with 'success' and one call wrote its rows while the
\* other held uncommitted rows
C36_Witness ==
    /\ PairDone /\ par.overlapped
    /\ \A r \in RacePair : par.ses[r].status = "success"
    /\ \A r \in RacePair : RowsOf(par.committed, r) # {}

\* the rows of round r that were committed when the run in progress started
RowsBefore(r) == RowsOf(seen.laps_before, r)

\* C37: with runs one after the other, a run leaves the rows of a race that
\* were committed before it started exactly as they were, and it sends an
\* INSERT for a race only when none of the proposed conflict keys belongs to a
\* row committed before the run (the DO UPDATE branch is not taken on such a
\* row).
C37_WriteOnce ==
    /\ \A r \in Rounds :
          RowsBefore(r) # {} => RowsOf(db.committed, r) = RowsBefore(r)
    /\ lpc \in {"begin", "insert", "commit"} =>
          \A i \in 1..Len(call.transformed) : \A e \in seen.laps_before :
              ConflictKey(e) # ConflictKey(call.transformed[i])

\* a call of a second run has returned; the rows one race had before that run
\* are as they were and the run has committed another race
C37_Witness ==
    /\ run_no = 2 /\ Returned /\ last.run = 2
    /\ \E r \in Rounds :
          /\ RowsBefore(r) # {} /\ RowsOf(db.committed, r) = RowsBefore(r)
          /\ \E q \in Rounds \ {r} :
                RowsBefore(q) = {} /\ RowsOf(db.committed, q) # {}

(***************************************************************************)
(* Claims about the numbering of stints and the keys of a batch            *)
(***************************************************************************)
\* C38: of every driver the first surviving lap has stint_id 1 and
\* stint_lap_index 1, whatever its compound and markers, and every later lap
\* either continues the stint of the lap before it with the next index or
\* opens the stint with the next id at index 1: the ids of a driver are 1..k
\* and the indices of a stint 1, 2, ..., n in lap order.
C38_StintNumberingContiguous ==
    tpc = "done" =>
        \A k \in RecIdx :
            LET p == PrevOf(k)
            IN  IF p = 0
                THEN Records[k].stint_id = 1 /\ Records[k].stint_lap_index = 1
                ELSE \/ /\ Records[k].stint_id = Records[p].stint_id
                        /\ Records[k].stint_lap_index = Records[p].stint_lap_index + 1
                     \/ /\ Records[k].stint_id = Records[p].stint_id + 1
                        /\ Records[k].stint_lap_index = 1

\* a driver whose first surviving lap is not lap 1, is on the MEDIUM tyre and
\* carries a pit-out marker is in stint 1 at index 1 there, and a later lap of
\* the driver opens stint 2
C38_Witness ==
    /\ tpc = "done"
    /\ \E k \in RecIdx :
         /\ PrevOf(k) # 0 /\ PrevOf(PrevOf(k)) = 0
         /\ Records[k].stint_id = 2 /\ Records[k].stint_lap_index = 1
         /\ Records[PrevOf(k)].stint_id = 1 /\ Records[PrevOf(k)].stint_lap_index = 1
         /\ Records[PrevOf(k)].lap_number > 1
         /\ Source[PrevOf(k)].Compound = "MEDIUM" /\ Source[PrevOf(k)].PitOutTime

\* C39: the provider has at most one lap per driver key and lap number, and the
\* records transform_lap_data returns for the race have pairwise distinct
\* conflict keys (season, round, track_id, driver_id, lap_number).
C39_UniqueConflictKeys ==
    tpc = "done" =>
        \A i, j \in RecIdx : i < j => ConflictKey(Records[i]) # ConflictKey(Records[j])

(***************************************************************************)
(* Claims about skipping a qualifying session                              *)
(***************************************************************************)
\* C40: when load_qualifying_data has returned and qualifying_results holds
\* rows of the session (later runs skip it), the laps extracted for the session
\* are committed in qualifying_laps; and when it has returned 'success' the
\* results extracted for the session are committed in qualifying_results.
C40_SkipIsSafe ==
    qual.pc = "returned" =>
        /\ qual.committed.results # {} =>
              QualLapRows(qual.nlaps) \subseteq qual.committed.laps
        /\ qual.status = "success" =>
              ResultRows(qual.nres) \subseteq qual.committed.results

====
